---- MODULE Spec2Model ----
(***************************************************************************)
(* A model of the quizlr-core assessment engine:                           *)
(*   quiz/question.rs  - Question, Answer, Question::validate_answer       *)
(*   quiz/session.rs   - QuizSession and its state machine, SessionSummary *)
(* Timestamps are integer clock readings; every Utc::now() in the source    *)
(* is a read of a monotone clock that may have advanced since the last     *)
(* read.  u32 fields keep a width: arithmetic on them overflows at          *)
(* U32_LIMIT, which panics when the build has overflow checks and wraps     *)
(* otherwise.                                                              *)
(***************************************************************************)
EXTENDS Integers, Sequences, FiniteSets, TLC

VARIABLES
    state,                   \* QuizSession.state
    current_question_index,  \* QuizSession.current_question_index
    responses,               \* QuizSession.responses : Vec<QuestionResponse>
    skipped_questions,       \* QuizSession.skipped_questions : Vec<usize>
    start_time,              \* QuizSession.start_time : Option<DateTime>
    end_time,                \* QuizSession.end_time : Option<DateTime>
    pause_duration,          \* QuizSession.pause_duration : Duration
    last_activity,           \* QuizSession.last_activity : DateTime
    now,                     \* the latest reading of the clock (Utc::now)
    overflow_checks,         \* the build's overflow checks: "on" panics, "off" wraps,
                             \* "either" while no overflow has shown which
    panicked,                \* a call has panicked; the caller has unwound
    ncalls,                  \* number of calls made on the session so far
    last,                    \* the latest call: operation, arguments, result
    hist,                    \* per question id: the successful submissions so far
    succeeded,               \* per operation: how many of its calls returned Ok
    paused_at,               \* the clock reading the latest pause() took
    v_question,              \* validate_answer: the question (self)
    v_answer,                \* validate_answer: the answer
    v_result,                \* validate_answer: the Result returned, None before the call
    questions,               \* Quiz.questions : Vec<Question>
    topic_ids,               \* Quiz.topic_ids : Vec<Uuid>
    difficulty_range,        \* Quiz.difficulty_range : (f32, f32), in hundredths
    estimated_duration_minutes,  \* Quiz.estimated_duration_minutes : u32
    created_at,              \* Quiz.created_at : DateTime
    updated_at,              \* Quiz.updated_at : DateTime
    randomize_questions,     \* Quiz.randomize_questions : bool
    randomize_options,       \* Quiz.randomize_options : bool
    returned,                \* the questions the latest quiz call returned
    added_topics,            \* the topic ids of all questions ever added to the quiz
    scored_session,          \* calculate_score: the session (responses, skipped_questions)
    scored_questions,        \* calculate_score: the question list
    strategy,                \* calculate_score: the ScoringStrategy (self)
    v_score                  \* calculate_score: the Score returned, None before the call

session == <<state, current_question_index, responses, skipped_questions,
             start_time, end_time, pause_duration, last_activity>>

validation == <<v_question, v_answer, v_result>>

quiz == <<questions, topic_ids, difficulty_range, estimated_duration_minutes,
          created_at, updated_at, randomize_questions, randomize_options>>

quiz_calls == <<returned, added_topics>>

scoring == <<scored_session, scored_questions, strategy, v_score>>

vars == <<state, current_question_index, responses, skipped_questions,
          start_time, end_time, pause_duration, last_activity,
          now, overflow_checks, panicked, ncalls, last, hist, succeeded, paused_at,
          v_question, v_answer, v_result,
          questions, topic_ids, difficulty_range, estimated_duration_minutes,
          created_at, updated_at, randomize_questions, randomize_options,
          returned, added_topics,
          scored_session, scored_questions, strategy, v_score>>

----------------------------------------------------------------------------
(* Bounds of the model *)

\* calls made on one session
MaxCalls == 4
\* the clock reads 0..MaxClock
MaxClock == 2
\* u32 values are 0..U32_LIMIT-1 (the width of u32, scaled down)
U32_LIMIT == 256
\* skip_question is called with indices 0..MaxSkipIndex
MaxSkipIndex == 1
\* a question has 0..MaxOptions options; indices are 0..MaxOptions
MaxOptions == 2
\* an index list or a pair list has 0..MaxIndices elements
MaxIndices == 2
\* a fill-in-the-blank question or answer has 0..MaxBlanks strings
MaxBlanks == 2
\* a scored session has 0..MaxResponses responses
MaxResponses == 2
\* a scored question list has 0..MaxQuestions questions
MaxQuestions == 2

U32_MAX == U32_LIMIT - 1

\* Quiz::new: estimated_duration_minutes
DefaultDurationMinutes == 30
\* update_estimated_duration: seconds in a minute
SecondsPerMinute == 60
\* Question::new: estimated_time_seconds
DefaultTimeSeconds == 60
\* difficulty_weighted_score: d < 0.33 is easy, d < 0.67 medium, in hundredths
EasyBelow == 33
MediumBelow == 67
\* sqrt keeps two decimal digits of a root that is not exact
SqrtDigits == 100

----------------------------------------------------------------------------
(* Option<T> *)

None == << >>
Some(x) == <<x>>
is_some(o) == Len(o) = 1
unwrap(o) == o[1]

----------------------------------------------------------------------------
(* Vec helpers *)

usize_le(a, b) == a <= b
\* Ord of (usize, usize): lexicographic
pair_le(a, b) == a[1] < b[1] \/ (a[1] = b[1] /\ a[2] <= b[2])
\* Ord of the element type: pairs when of_pairs, usize otherwise
elem_le(a, b, of_pairs) == IF of_pairs THEN pair_le(a, b) ELSE usize_le(a, b)

RECURSIVE insert_sorted(_, _, _)
insert_sorted(x, s, of_pairs) ==
    IF s = << >> THEN <<x>>
    ELSE IF elem_le(x, Head(s), of_pairs) THEN <<x>> \o s
    ELSE <<Head(s)>> \o insert_sorted(x, Tail(s), of_pairs)

\* sort, were the order of s left as it is
sort_unsorted(s, of_pairs) == s

\* Vec::sort: the elements of s in ascending order
RECURSIVE sort(_, _)
sort(s, of_pairs) ==
    IF s = << >> THEN << >>
    ELSE insert_sorted(Head(s), sort(Tail(s), of_pairs), of_pairs)

contains(s, x) == \E i \in 1..Len(s) : s[i] = x

\* char::to_lowercase on the model's alphabet
to_lowercase_char(c) ==
    CASE c = "A" -> "a"
      [] c = "B" -> "b"
      [] OTHER -> c

\* to_lowercase, were the case of s left as it is
to_lowercase_unchanged(s) == s

\* String::to_lowercase; a String is the sequence of its chars
to_lowercase(s) == [i \in 1..Len(s) |-> to_lowercase_char(s[i])]

----------------------------------------------------------------------------
(* QuestionType and Answer: tagged unions, one record shape for all variants *)

NoType == [kind |-> "", correct_answer |-> FALSE, options |-> << >>,
           correct_index |-> 0, correct_indices |-> << >>,
           correct_answers |-> << >>, case_sensitive |-> FALSE,
           correct_pairs |-> << >>]

TrueFalseQ(c) == [NoType EXCEPT !.kind = "TrueFalse", !.correct_answer = c]
MultipleChoiceQ(opts, ci) ==
    [NoType EXCEPT !.kind = "MultipleChoice", !.options = opts, !.correct_index = ci]
MultiSelectQ(opts, cis) ==
    [NoType EXCEPT !.kind = "MultiSelect", !.options = opts, !.correct_indices = cis]
FillInTheBlankQ(cas, cs) ==
    [NoType EXCEPT !.kind = "FillInTheBlank", !.correct_answers = cas,
                   !.case_sensitive = cs]
MatchPairsQ(cps) == [NoType EXCEPT !.kind = "MatchPairs", !.correct_pairs = cps]
InteractiveInterviewQ == [NoType EXCEPT !.kind = "InteractiveInterview"]
TopicExplanationQ == [NoType EXCEPT !.kind = "TopicExplanation"]

NoAnswer == [kind |-> "", bool |-> FALSE, index |-> 0, indices |-> << >>,
             strings |-> << >>, pairs |-> << >>]

TrueFalseA(b) == [NoAnswer EXCEPT !.kind = "TrueFalse", !.bool = b]
MultipleChoiceA(i) == [NoAnswer EXCEPT !.kind = "MultipleChoice", !.index = i]
MultiSelectA(is) == [NoAnswer EXCEPT !.kind = "MultiSelect", !.indices = is]
FillInTheBlankA(ss) == [NoAnswer EXCEPT !.kind = "FillInTheBlank", !.strings = ss]
MatchPairsA(ps) == [NoAnswer EXCEPT !.kind = "MatchPairs", !.pairs = ps]
InteractiveResponseA == [NoAnswer EXCEPT !.kind = "InteractiveResponse"]
TopicExplanationA == [NoAnswer EXCEPT !.kind = "TopicExplanation"]

\* Question: difficulty in hundredths
Question(id, qt, topic, diff, secs) ==
    [id |-> id, question_type |-> qt, topic_id |-> topic, difficulty |-> diff,
     estimated_time_seconds |-> secs]

----------------------------------------------------------------------------
(* Result<bool, String> *)

Ok(b) == [ok |-> TRUE, value |-> b, err |-> ""]
\* Err, were a rejected answer scored as wrong
Err_scored_wrong(e) == Ok(FALSE)
Err(e) == [ok |-> FALSE, value |-> FALSE, err |-> e]

\* validate_answer, were an index equal to the number of options accepted
validate_answer_off_by_one(question, answer) ==
    LET qt == question.question_type IN
    CASE qt.kind = "TrueFalse" /\ answer.kind = "TrueFalse" ->
            Ok(qt.correct_answer = answer.bool)
      [] qt.kind = "MultipleChoice" /\ answer.kind = "MultipleChoice" ->
            IF answer.index > Len(qt.options)
            THEN Err("Invalid option index")
            ELSE Ok(qt.correct_index = answer.index)
      [] qt.kind = "MultiSelect" /\ answer.kind = "MultiSelect" ->
            IF \E i \in 1..Len(answer.indices) : answer.indices[i] > Len(qt.options)
            THEN Err("Invalid option index")
            ELSE Ok(sort(answer.indices, FALSE) = sort(qt.correct_indices, FALSE))
      [] qt.kind = "FillInTheBlank" /\ answer.kind = "FillInTheBlank" ->
            IF Len(answer.strings) # Len(qt.correct_answers)
            THEN Err("Wrong number of answers")
            ELSE Ok(\A i \in 1..Len(answer.strings) :
                        IF qt.case_sensitive
                        THEN answer.strings[i] = qt.correct_answers[i]
                        ELSE to_lowercase(answer.strings[i])
                                 = to_lowercase(qt.correct_answers[i]))
      [] qt.kind = "MatchPairs" /\ answer.kind = "MatchPairs" ->
            Ok(sort(answer.pairs, TRUE) = sort(qt.correct_pairs, TRUE))
      [] OTHER -> Err("Answer type does not match question type")

\* Question::validate_answer
validate_answer(question, answer) ==
    LET qt == question.question_type IN
    CASE qt.kind = "TrueFalse" /\ answer.kind = "TrueFalse" ->
            Ok(qt.correct_answer = answer.bool)
      [] qt.kind = "MultipleChoice" /\ answer.kind = "MultipleChoice" ->
            IF answer.index >= Len(qt.options)
            THEN Err("Invalid option index")
            ELSE Ok(qt.correct_index = answer.index)
      [] qt.kind = "MultiSelect" /\ answer.kind = "MultiSelect" ->
            IF \E i \in 1..Len(answer.indices) : answer.indices[i] >= Len(qt.options)
            THEN Err("Invalid option index")
            ELSE Ok(sort(answer.indices, FALSE) = sort(qt.correct_indices, FALSE))
      [] qt.kind = "FillInTheBlank" /\ answer.kind = "FillInTheBlank" ->
            IF Len(answer.strings) # Len(qt.correct_answers)
            THEN Err("Wrong number of answers")
            ELSE Ok(\A i \in 1..Len(answer.strings) :
                        IF qt.case_sensitive
                        THEN answer.strings[i] = qt.correct_answers[i]
                        ELSE to_lowercase(answer.strings[i])
                                 = to_lowercase(qt.correct_answers[i]))
      [] qt.kind = "MatchPairs" /\ answer.kind = "MatchPairs" ->
            Ok(sort(answer.pairs, TRUE) = sort(qt.correct_pairs, TRUE))
      [] OTHER -> Err("Answer type does not match question type")

----------------------------------------------------------------------------
(* u32 arithmetic *)

\* a + b does not fit in u32
overflows(a, b) == a + b > U32_MAX
\* a + b in a build without overflow checks
wrapping_add(a, b) == (a + b) % U32_LIMIT

RECURSIVE sum_times(_)
\* the mathematical sum of time_taken_seconds over a response list
sum_times(rs) == IF rs = << >> THEN 0 ELSE Head(rs).time_taken_seconds + sum_times(Tail(rs))

----------------------------------------------------------------------------
(* SessionSummary *)

\* an f32 quotient n / d of two counts, kept exact as a fraction; 0.0 is 0/1
Ratio(n, d) == [num |-> n, den |-> d]
Zero == Ratio(0, 1)

NoSummary == [score |-> Zero, correct_answers |-> 0, total_questions |-> 0,
              skipped_questions |-> 0, total_time_seconds |-> 0, duration |-> 0,
              average_time_per_question |-> 0, completion_rate |-> Zero]

\* the session as a value
Self(st, idx, rs, sk, st_time, en_time, pd, la) ==
    [state |-> st, current_question_index |-> idx, responses |-> rs,
     skipped_questions |-> sk, start_time |-> st_time, end_time |-> en_time,
     pause_duration |-> pd, last_activity |-> la]

self == Self(state, current_question_index, responses, skipped_questions,
             start_time, end_time, pause_duration, last_activity)

\* the u32 sum of the response times overflows (Iterator::sum panics under overflow checks)
summary_overflows(s) == sum_times(s.responses) > U32_MAX

\* generate_summary, were it to count only the answered questions in total_questions
\* and to divide the total time by total_questions
generate_summary_answered_only(s, t) ==
    LET total_questions == Len(s.responses)
        correct_answers == Cardinality({i \in 1..Len(s.responses) : s.responses[i].is_correct})
        total_time_seconds == sum_times(s.responses) % U32_LIMIT
        score == IF total_questions > 0 THEN Ratio(correct_answers, total_questions) ELSE Zero
    IN [score |-> score,
        correct_answers |-> correct_answers,
        total_questions |-> total_questions,
        skipped_questions |-> Len(s.skipped_questions),
        total_time_seconds |-> total_time_seconds,
        duration |-> 0,
        average_time_per_question |->
            IF s.responses # << >>
            THEN total_time_seconds \div (Len(s.responses) + Len(s.skipped_questions))
            ELSE 0,
        completion_rate |->
            IF total_questions > 0 THEN Ratio(Len(s.responses), total_questions) ELSE Zero]

\* generate_summary, were the duration to include the time spent paused
generate_summary_elapsed(s, t) ==
    LET total_questions == Len(s.responses) + Len(s.skipped_questions)
        correct_answers == Cardinality({i \in 1..Len(s.responses) : s.responses[i].is_correct})
        total_time_seconds == sum_times(s.responses) % U32_LIMIT
        score == IF total_questions > 0 THEN Ratio(correct_answers, total_questions) ELSE Zero
        duration == IF is_some(s.start_time) /\ is_some(s.end_time)
                        THEN unwrap(s.end_time) - unwrap(s.start_time)
                    ELSE IF is_some(s.start_time)
                        THEN t - unwrap(s.start_time)
                    ELSE 0
    IN [score |-> score,
        correct_answers |-> correct_answers,
        total_questions |-> total_questions,
        skipped_questions |-> Len(s.skipped_questions),
        total_time_seconds |-> total_time_seconds,
        duration |-> duration,
        average_time_per_question |->
            IF s.responses # << >> THEN total_time_seconds \div Len(s.responses) ELSE 0,
        completion_rate |->
            IF total_questions > 0 THEN Ratio(Len(s.responses), total_questions) ELSE Zero]

\* QuizSession::generate_summary, t the reading of Utc::now() it takes when the session
\* has no end_time; total_time_seconds wraps when the sum overflows
generate_summary(s, t) ==
    LET total_questions == Len(s.responses) + Len(s.skipped_questions)
        correct_answers == Cardinality({i \in 1..Len(s.responses) : s.responses[i].is_correct})
        total_time_seconds == sum_times(s.responses) % U32_LIMIT
        score == IF total_questions > 0 THEN Ratio(correct_answers, total_questions) ELSE Zero
        duration == IF is_some(s.start_time) /\ is_some(s.end_time)
                        THEN unwrap(s.end_time) - unwrap(s.start_time) - s.pause_duration
                    ELSE IF is_some(s.start_time)
                        THEN t - unwrap(s.start_time) - s.pause_duration
                    ELSE 0
    IN [score |-> score,
        correct_answers |-> correct_answers,
        total_questions |-> total_questions,
        skipped_questions |-> Len(s.skipped_questions),
        total_time_seconds |-> total_time_seconds,
        duration |-> duration,
        average_time_per_question |->
            IF s.responses # << >> THEN total_time_seconds \div Len(s.responses) ELSE 0,
        completion_rate |->
            IF total_questions > 0 THEN Ratio(Len(s.responses), total_questions) ELSE Zero]

----------------------------------------------------------------------------
(* The calls made on the session *)

\* the questions and answers callers submit
Q1 == Question(1, TrueFalseQ(TRUE), 1, 50, 60)
Q2 == Question(2, MultipleChoiceQ(<< <<"x">>, <<"y">> >>, 1), 2, 50, 60)
Q3 == Question(3, InteractiveInterviewQ, 2, 50, 60)
SessionQuestions == {Q1, Q2, Q3}
QuestionIds == {q.id : q \in SessionQuestions}
SessionAnswers == {TrueFalseA(TRUE), TrueFalseA(FALSE),
                   MultipleChoiceA(1), MultipleChoiceA(2)}
\* the time_taken_seconds callers pass
SubmitTimes == {1, U32_MAX}
SkipIndices == 0..MaxSkipIndex

States == {"NotStarted", "InProgress", "Paused", "Completed", "Abandoned"}

\* value: the bool submit_answer returned; for skip_question, which returns (),
\* whether the index was already in the skipped list
\* before: for add_question, the questions, difficulty_range and
\* estimated_duration_minutes the call found
NoCall == [op |-> "new", ok |-> TRUE, err |-> "", value |-> FALSE,
           question |-> 0, index |-> 0, summary |-> NoSummary, before |-> << >>]

\* a call of op that returned Ok(()) or ()
Returned(op) == [NoCall EXCEPT !.op = op]
\* a call of op that returned Err(e)
Failed(op, e) == [NoCall EXCEPT !.op = op, !.ok = FALSE, !.err = e]

NoHist == [n |-> 0, total |-> 0, answer |-> NoAnswer, is_correct |-> FALSE]

\* a call can be made: the caller has not unwound, and the model's call budget is not spent
CanCall == ~panicked /\ ncalls < MaxCalls

\* QuizSession::new, at clock reading t
new(t) ==
    /\ state = "NotStarted"
    /\ current_question_index = 0
    /\ responses = << >>
    /\ skipped_questions = << >>
    /\ start_time = None
    /\ end_time = None
    /\ pause_duration = 0
    /\ last_activity = t
    /\ now = t
    /\ overflow_checks = "either"
    /\ panicked = FALSE
    /\ ncalls = 0
    /\ last = NoCall
    /\ hist = [q \in QuestionIds |-> NoHist]
    /\ succeeded = [start |-> 0, complete |-> 0, next_question |-> 0,
                    previous_question |-> 0]
    /\ paused_at = None

\* no call of validate_answer is under way
NoValidation ==
    /\ v_question = Q1
    /\ v_answer = NoAnswer
    /\ v_result = None

\* difficulty_range of a quiz without questions: (0.0, 1.0)
EmptyRange == <<0, 100>>

\* Quiz::new, at clock reading t
Quiz_new(t) ==
    /\ questions = << >>
    /\ topic_ids = << >>
    /\ difficulty_range = EmptyRange
    /\ estimated_duration_minutes = DefaultDurationMinutes
    /\ created_at = t
    /\ updated_at = t
    /\ randomize_questions = FALSE
    /\ randomize_options = FALSE
    /\ returned = << >>
    /\ added_topics = {}

\* ScoringStrategy: a tagged union, one record shape for all variants
NoStrategy == [kind |-> "", base_time_seconds |-> 0, penalty_per_second |-> Zero,
               easy_multiplier |-> Zero, medium_multiplier |-> Zero,
               hard_multiplier |-> Zero, time_weight |-> Zero,
               difficulty_weight |-> Zero, streak_weight |-> Zero,
               consistency_weight |-> Zero]

Simple == [NoStrategy EXCEPT !.kind = "Simple"]
TimeWeighted(base, penalty) ==
    [NoStrategy EXCEPT !.kind = "TimeWeighted", !.base_time_seconds = base,
                       !.penalty_per_second = penalty]
DifficultyWeighted(easy, medium, hard) ==
    [NoStrategy EXCEPT !.kind = "DifficultyWeighted", !.easy_multiplier = easy,
                       !.medium_multiplier = medium, !.hard_multiplier = hard]
Adaptive(tw, dw, sw, cw) ==
    [NoStrategy EXCEPT !.kind = "Adaptive", !.time_weight = tw,
                       !.difficulty_weight = dw, !.streak_weight = sw,
                       !.consistency_weight = cw]

\* no call of calculate_score is under way
NoScoring ==
    /\ scored_session = [responses |-> << >>, skipped_questions |-> << >>]
    /\ scored_questions = << >>
    /\ strategy = Simple
    /\ v_score = None

\* a session constructed at clock reading 0
Init ==
    /\ new(0)
    /\ NoValidation
    /\ Quiz_new(0)
    /\ NoScoring

\* Reject, were the error paths to touch last_activity
Reject_touching(op, e) ==
    /\ last' = Failed(op, e)
    /\ \E t \in now..MaxClock : last_activity' = t /\ now' = t
    /\ UNCHANGED <<state, current_question_index, responses, skipped_questions,
                   start_time, end_time, pause_duration, panicked, hist, succeeded, paused_at>>

\* the call returns an error without touching the session
Reject(op, e) ==
    /\ last' = Failed(op, e)
    /\ UNCHANGED <<session, now, panicked, hist, succeeded, paused_at>>

\* start_allowed, were start() to restart a paused session
start_allowed_after_pause == state \in {"NotStarted", "Paused"}

\* start_allowed, were start() to restart a session that has ended
start_allowed_ended == state \in {"NotStarted", "Completed", "Abandoned"}

\* QuizSession::start: the match arm taken
start_allowed == state = "NotStarted"

\* QuizSession::start
start ==
    /\ CanCall
    /\ ncalls' = ncalls + 1
    /\ UNCHANGED <<validation, quiz, quiz_calls, scoring>>
    /\ UNCHANGED overflow_checks
    /\ IF start_allowed
       THEN \E t1 \in now..MaxClock : \E t2 \in t1..MaxClock :
              /\ state' = "InProgress"
              /\ start_time' = Some(t1)
              /\ last_activity' = t2
              /\ now' = t2
              /\ last' = Returned("start")
              /\ succeeded' = [succeeded EXCEPT !.start = @ + 1]
              /\ UNCHANGED <<current_question_index, responses, skipped_questions,
                             end_time, pause_duration, panicked, hist, paused_at>>
       ELSE Reject("start", "Session already started")

\* QuizSession::pause: the match arm taken
pause_allowed == state = "InProgress"

\* QuizSession::pause
pause ==
    /\ CanCall
    /\ ncalls' = ncalls + 1
    /\ UNCHANGED <<validation, quiz, quiz_calls, scoring>>
    /\ UNCHANGED overflow_checks
    /\ IF pause_allowed
       THEN \E t \in now..MaxClock :
              /\ state' = "Paused"
              /\ last_activity' = t
              /\ now' = t
              /\ last' = Returned("pause")
              /\ paused_at' = Some(t)
              /\ UNCHANGED <<current_question_index, responses, skipped_questions,
                             start_time, end_time, pause_duration, panicked, hist,
                             succeeded>>
       ELSE Reject("pause", "Can only pause an in-progress session")

\* resume_allowed, were resume() to accept a session that is not paused
resume_allowed_in_progress == state \in {"Paused", "InProgress"}

\* QuizSession::resume: the match arm taken
resume_allowed == state = "Paused"

\* QuizSession::resume
resume ==
    /\ CanCall
    /\ ncalls' = ncalls + 1
    /\ UNCHANGED <<validation, quiz, quiz_calls, scoring>>
    /\ UNCHANGED overflow_checks
    /\ IF resume_allowed
       THEN \E t1 \in now..MaxClock : \E t2 \in t1..MaxClock :
              LET pause_time == t1 - last_activity IN
              /\ pause_duration' = pause_duration + pause_time
              /\ state' = "InProgress"
              /\ last_activity' = t2
              /\ now' = t2
              /\ last' = Returned("resume")
              /\ UNCHANGED <<current_question_index, responses, skipped_questions,
                             start_time, end_time, panicked, hist, succeeded, paused_at>>
       ELSE Reject("resume", "Can only resume a paused session")

\* position of the first response for question id qid, 0 when there is none
find_response(rs, qid) ==
    IF \E i \in 1..Len(rs) : rs[i].question_id = qid
    THEN CHOOSE i \in 1..Len(rs) :
            /\ rs[i].question_id = qid
            /\ \A j \in 1..(i - 1) : rs[j].question_id # qid
    ELSE 0

QuestionResponse(qid, answer, is_correct, secs, attempts, t) ==
    [question_id |-> qid, answer |-> answer, is_correct |-> is_correct,
     time_taken_seconds |-> secs, attempts |-> attempts, submitted_at |-> t]

\* submit_answer's update of the response found at position i, in a build
\* without overflow checks
update_response(r, answer, is_correct, time_taken_seconds, t) ==
    [r EXCEPT !.attempts = wrapping_add(@, 1),
              !.answer = answer,
              !.is_correct = is_correct,
              !.time_taken_seconds = wrapping_add(@, time_taken_seconds),
              !.submitted_at = t]

\* record_response, were it to push a new response on every submission
record_response_push(rs, question, answer, is_correct, time_taken_seconds, t) ==
    Append(rs, QuestionResponse(question.id, answer, is_correct, time_taken_seconds, 1, t))

\* submit_answer's find-or-insert of the response for the question
record_response(rs, question, answer, is_correct, time_taken_seconds, t) ==
    LET i == find_response(rs, question.id) IN
    IF i # 0
    THEN [rs EXCEPT ![i] = update_response(@, answer, is_correct, time_taken_seconds, t)]
    ELSE Append(rs, QuestionResponse(question.id, answer, is_correct,
                                     time_taken_seconds, 1, t))

\* submit_allowed, were submit_answer() to accept a paused session
submit_allowed_paused == state \in {"InProgress", "Paused"}

\* submit_allowed, were submit_answer to accept answers after the session ended
submit_allowed_ended == state \in {"InProgress", "Completed", "Abandoned"}

\* QuizSession::submit_answer: the state guard
submit_allowed == state = "InProgress"

\* propagates, were the ? to let an error of validate_answer pass as a wrong answer
propagates_never(valid) == FALSE

\* the ? of question.validate_answer(&answer)?: the call returns the error
propagates(valid) == ~valid.ok

\* QuizSession::submit_answer
submit_answer(question, answer, time_taken_seconds) ==
    LET call == [NoCall EXCEPT !.op = "submit_answer", !.question = question.id]
        valid == validate_answer(question, answer)
        i == find_response(responses, question.id)
    IN
    /\ CanCall
    /\ ncalls' = ncalls + 1
    /\ UNCHANGED <<validation, quiz, quiz_calls, scoring>>
    /\ UNCHANGED <<succeeded, paused_at>>
    /\ IF ~submit_allowed
       THEN /\ last' = [call EXCEPT !.ok = FALSE, !.err = "Session is not in progress"]
            /\ UNCHANGED <<session, now, panicked, hist, overflow_checks>>
       ELSE IF propagates(valid)
       THEN /\ last' = [call EXCEPT !.ok = FALSE, !.err = valid.err]
            /\ UNCHANGED <<session, now, panicked, hist, overflow_checks>>
       ELSE
         LET attempts_overflow == i # 0 /\ overflows(responses[i].attempts, 1)
             time_overflow == i # 0 /\ overflows(responses[i].time_taken_seconds,
                                                 time_taken_seconds)
         IN
         \/ \* attempts += 1 panics
            /\ attempts_overflow
            /\ overflow_checks # "off"
            /\ overflow_checks' = "on"
            /\ panicked' = TRUE
            /\ last' = [call EXCEPT !.ok = FALSE, !.err = "panic"]
            /\ UNCHANGED <<session, now, hist>>
         \/ \* time_taken_seconds += panics, after attempts, answer and is_correct are written
            /\ ~attempts_overflow
            /\ time_overflow
            /\ overflow_checks # "off"
            /\ overflow_checks' = "on"
            /\ panicked' = TRUE
            /\ responses' = [responses EXCEPT ![i] =
                                [@ EXCEPT !.attempts = @ + 1, !.answer = answer,
                                          !.is_correct = valid.value]]
            /\ last' = [call EXCEPT !.ok = FALSE, !.err = "panic"]
            /\ UNCHANGED <<state, current_question_index, skipped_questions, start_time,
                           end_time, pause_duration, last_activity, now, hist>>
         \/ \* no overflow, or the build wraps
            /\ (attempts_overflow \/ time_overflow) => overflow_checks # "on"
            /\ overflow_checks' = IF attempts_overflow \/ time_overflow
                                  THEN "off" ELSE overflow_checks
            /\ \E t1 \in now..MaxClock : \E t2 \in t1..MaxClock :
                /\ responses' = record_response(responses, question, answer, valid.value,
                                                time_taken_seconds, t1)
                /\ last_activity' = t2
                /\ now' = t2
            /\ last' = [call EXCEPT !.value = valid.value]
            /\ hist' = [hist EXCEPT ![question.id] =
                            [n |-> @.n + 1, total |-> @.total + time_taken_seconds,
                             answer |-> answer, is_correct |-> valid.value]]
            /\ UNCHANGED <<state, current_question_index, skipped_questions, start_time,
                           end_time, pause_duration, panicked>>

\* push_skipped, without the contains check
push_skipped_always(sk, question_index) == Append(sk, question_index)

\* skip_question's update of the skipped list
push_skipped(sk, question_index) ==
    IF ~contains(sk, question_index) THEN Append(sk, question_index) ELSE sk

\* QuizSession::skip_question
skip_question(question_index) ==
    /\ CanCall
    /\ ncalls' = ncalls + 1
    /\ UNCHANGED <<validation, quiz, quiz_calls, scoring>>
    /\ UNCHANGED overflow_checks
    /\ \E t \in now..MaxClock :
        /\ skipped_questions' = push_skipped(skipped_questions, question_index)
        /\ last_activity' = t
        /\ now' = t
        /\ last' = [Returned("skip_question") EXCEPT
                        !.index = question_index,
                        !.value = contains(skipped_questions, question_index)]
        /\ UNCHANGED <<state, current_question_index, responses, start_time, end_time,
                       pause_duration, panicked, hist, succeeded, paused_at>>

\* navigate_allowed, were navigation to accept a paused session
navigate_allowed_paused == state \in {"InProgress", "Paused"}

\* QuizSession::next_question / previous_question: the state guard
navigate_allowed == state = "InProgress"

\* QuizSession::next_question
next_question ==
    /\ CanCall
    /\ ncalls' = ncalls + 1
    /\ UNCHANGED <<validation, quiz, quiz_calls, scoring>>
    /\ UNCHANGED overflow_checks
    /\ IF ~navigate_allowed
       THEN Reject("next_question", "Session is not in progress")
       ELSE \E t \in now..MaxClock :
            /\ current_question_index' = current_question_index + 1
            /\ last_activity' = t
            /\ now' = t
            /\ last' = Returned("next_question")
            /\ succeeded' = [succeeded EXCEPT !.next_question = @ + 1]
            /\ UNCHANGED <<state, responses, skipped_questions, start_time, end_time,
                           pause_duration, panicked, hist, paused_at>>

\* QuizSession::previous_question
previous_question ==
    /\ CanCall
    /\ ncalls' = ncalls + 1
    /\ UNCHANGED <<validation, quiz, quiz_calls, scoring>>
    /\ UNCHANGED overflow_checks
    /\ IF ~navigate_allowed
       THEN Reject("previous_question", "Session is not in progress")
       ELSE IF current_question_index > 0
       THEN \E t \in now..MaxClock :
            /\ current_question_index' = current_question_index - 1
            /\ last_activity' = t
            /\ now' = t
            /\ last' = Returned("previous_question")
            /\ succeeded' = [succeeded EXCEPT !.previous_question = @ + 1]
            /\ UNCHANGED <<state, responses, skipped_questions, start_time, end_time,
                           pause_duration, panicked, hist, paused_at>>
       ELSE Reject("previous_question", "Already at first question")

\* complete_allowed, were complete() to accept a paused session
complete_allowed_paused == state \in {"InProgress", "Paused"}

\* QuizSession::complete: the match arm taken
complete_allowed == state = "InProgress"

\* QuizSession::complete
complete ==
    /\ CanCall
    /\ ncalls' = ncalls + 1
    /\ UNCHANGED <<validation, quiz, quiz_calls, scoring>>
    /\ IF complete_allowed
       THEN /\ \E t \in now..MaxClock :
                /\ state' = "Completed"
                /\ end_time' = Some(t)
                /\ now' = t
            /\ UNCHANGED <<current_question_index, responses, skipped_questions,
                           start_time, pause_duration, last_activity, hist, paused_at>>
            /\ \/ \* the sum in generate_summary panics, after state and end_time are written
                  /\ summary_overflows(self)
                  /\ overflow_checks # "off"
                  /\ overflow_checks' = "on"
                  /\ panicked' = TRUE
                  /\ last' = Failed("complete", "panic")
                  /\ UNCHANGED succeeded
               \/ \* no overflow, or the build wraps
                  /\ summary_overflows(self) => overflow_checks # "on"
                  /\ overflow_checks' = IF summary_overflows(self) THEN "off"
                                        ELSE overflow_checks
                  /\ UNCHANGED panicked
                  /\ succeeded' = [succeeded EXCEPT !.complete = @ + 1]
                  /\ last' = [Returned("complete") EXCEPT
                                 !.summary = generate_summary(
                                     Self("Completed", current_question_index, responses,
                                          skipped_questions, start_time, end_time',
                                          pause_duration, last_activity), now')]
       ELSE /\ Reject("complete", "Can only complete an in-progress session")
            /\ UNCHANGED overflow_checks

\* abandon, were it to leave a completed session alone
abandon_unless_completed ==
    /\ CanCall
    /\ ncalls' = ncalls + 1
    /\ UNCHANGED <<validation, quiz, quiz_calls, scoring>>
    /\ UNCHANGED overflow_checks
    /\ last' = Returned("abandon")
    /\ UNCHANGED <<current_question_index, responses, skipped_questions, start_time,
                   pause_duration, last_activity, panicked, hist, succeeded, paused_at>>
    /\ IF state = "Completed"
       THEN UNCHANGED <<state, end_time, now>>
       ELSE \E t \in now..MaxClock :
                /\ state' = "Abandoned"
                /\ end_time' = Some(t)
                /\ now' = t

\* QuizSession::abandon
abandon ==
    /\ CanCall
    /\ ncalls' = ncalls + 1
    /\ UNCHANGED <<validation, quiz, quiz_calls, scoring>>
    /\ UNCHANGED overflow_checks
    /\ \E t \in now..MaxClock :
        /\ state' = "Abandoned"
        /\ end_time' = Some(t)
        /\ now' = t
        /\ last' = Returned("abandon")
        /\ UNCHANGED <<current_question_index, responses, skipped_questions, start_time,
                       pause_duration, last_activity, panicked, hist, succeeded, paused_at>>

Next ==
    \/ start
    \/ pause
    \/ resume
    \/ \E q \in SessionQuestions, a \in SessionAnswers, secs \in SubmitTimes :
          submit_answer(q, a, secs)
    \/ \E i \in SkipIndices : skip_question(i)
    \/ next_question
    \/ previous_question
    \/ complete
    \/ abandon

Spec == Init /\ [][Next]_vars

----------------------------------------------------------------------------
(* validate_answer on bounded questions and answers *)

\* the sequences over S of length 0..n
SeqsUpTo(S, n) == UNION {[1..k -> S] : k \in 0..n}

\* n options
Options(n) == [i \in 1..n |-> <<"o">>]
OptionLists == {Options(n) : n \in 0..MaxOptions}
\* usize indices, the last beyond every option list
Indices == 0..MaxOptions
IndexLists == SeqsUpTo(Indices, MaxIndices)
\* (usize, usize) pairs
Pairs == (0..1) \X (0..1)
PairLists == SeqsUpTo(Pairs, MaxIndices)
\* Strings: equal, differing in case only, of one and of two chars, and a digit
Strings == { <<"a">>, <<"A">>, <<"1">>, <<"a", "B">>, <<"A", "b">> }
StringLists == SeqsUpTo(Strings, MaxBlanks)

\* Question::new(question_type, topic 1, 0.5) with id 1
NewQuestion(qt) == Question(1, qt, 1, 50, DefaultTimeSeconds)

TrueFalseQuestions == {NewQuestion(TrueFalseQ(c)) : c \in BOOLEAN}
MultipleChoiceQuestions ==
    {NewQuestion(MultipleChoiceQ(o, ci)) : o \in OptionLists, ci \in Indices}
MultiSelectQuestions ==
    {NewQuestion(MultiSelectQ(o, cis)) : o \in OptionLists, cis \in IndexLists}
FillInTheBlankQuestions ==
    {NewQuestion(FillInTheBlankQ(cas, cs)) : cas \in StringLists, cs \in BOOLEAN}
MatchPairsQuestions == {NewQuestion(MatchPairsQ(cps)) : cps \in PairLists}
OpenQuestions == {NewQuestion(InteractiveInterviewQ), NewQuestion(TopicExplanationQ)}
ValidateQuestions ==
    TrueFalseQuestions \cup MultipleChoiceQuestions \cup MultiSelectQuestions
        \cup FillInTheBlankQuestions \cup MatchPairsQuestions \cup OpenQuestions

TrueFalseAnswers == {TrueFalseA(b) : b \in BOOLEAN}
MultipleChoiceAnswers == {MultipleChoiceA(i) : i \in Indices}
MultiSelectAnswers == {MultiSelectA(is) : is \in IndexLists}
FillInTheBlankAnswers == {FillInTheBlankA(ss) : ss \in StringLists}
MatchPairsAnswers == {MatchPairsA(ps) : ps \in PairLists}
\* answers of every variant, empty and not
SampleAnswers ==
    {TrueFalseA(TRUE), MultipleChoiceA(0),
     MultiSelectA(<< >>), MultiSelectA(<<0>>),
     FillInTheBlankA(<< >>), FillInTheBlankA(<< <<"a">> >>),
     MatchPairsA(<< >>), MatchPairsA(<< <<0, 0>> >>),
     InteractiveResponseA, TopicExplanationA}

\* the (question, answer) pairs validate_answer is called with: every answer of the
\* question's own variant, and answers of every variant for every question
ValidateInputs ==
    (TrueFalseQuestions \X TrueFalseAnswers)
        \cup (MultipleChoiceQuestions \X MultipleChoiceAnswers)
        \cup (MultiSelectQuestions \X MultiSelectAnswers)
        \cup (FillInTheBlankQuestions \X FillInTheBlankAnswers)
        \cup (MatchPairsQuestions \X MatchPairsAnswers)
        \cup (ValidateQuestions \X SampleAnswers)

\* a session constructed at the last clock reading, and the question and answer of
\* the calls to come
InitValidate ==
    /\ new(MaxClock)
    /\ Quiz_new(MaxClock)
    /\ NoScoring
    /\ \E p \in ValidateInputs : v_question = p[1] /\ v_answer = p[2]
    /\ v_result = None

\* question.validate_answer(&answer)
Validate ==
    /\ v_result = None
    /\ v_result' = Some(validate_answer(v_question, v_answer))
    /\ UNCHANGED <<session, now, overflow_checks, panicked, ncalls, last, hist,
                   succeeded, paused_at, v_question, v_answer, quiz, quiz_calls,
                   scoring>>

\* session.start() on the new session
StartSession == state = "NotStarted" /\ start

\* session.submit_answer(&question, answer, 1) on the started session
SubmitAnswer == state = "InProgress" /\ submit_answer(v_question, v_answer, 1)

NextValidate ==
    \/ Validate
    \/ StartSession
    \/ SubmitAnswer

SpecValidate == InitValidate /\ [][NextValidate]_vars

\* session.submit_answer(&question, a, 1), the first answer given to the question,
\* one that the question accepts
SubmitSample ==
    /\ state = "InProgress"
    /\ responses = << >>
    /\ \E a \in SampleAnswers :
          /\ validate_answer(v_question, a).ok
          /\ submit_answer(v_question, a, 1)

\* a session is started, the question answered, and the answer then submitted
NextResubmit ==
    \/ StartSession
    \/ SubmitSample
    \/ SubmitAnswer

SpecResubmit == InitValidate /\ [][NextResubmit]_vars

----------------------------------------------------------------------------
(* Quiz *)

f32_min(a, b) == IF a <= b THEN a ELSE b
f32_max(a, b) == IF a >= b THEN a ELSE b

\* .map(|q| q.difficulty).fold(acc, f32::min)
RECURSIVE fold_min(_, _)
fold_min(acc, qs) ==
    IF qs = << >> THEN acc ELSE fold_min(f32_min(acc, Head(qs).difficulty), Tail(qs))

\* .map(|q| q.difficulty).fold(acc, f32::max)
RECURSIVE fold_max(_, _)
fold_max(acc, qs) ==
    IF qs = << >> THEN acc ELSE fold_max(f32_max(acc, Head(qs).difficulty), Tail(qs))

\* update_difficulty_range, were the minimum folded from 0.0 as the maximum is
update_difficulty_range_from_zero(qs) ==
    IF qs = << >> THEN EmptyRange ELSE <<fold_min(0, qs), fold_max(0, qs)>>

\* Quiz::update_difficulty_range: the new difficulty_range for questions qs
update_difficulty_range(qs) ==
    IF qs = << >> THEN EmptyRange ELSE <<fold_min(100, qs), fold_max(0, qs)>>

\* the mathematical sum of estimated_time_seconds over a question list
RECURSIVE sum_seconds(_)
sum_seconds(qs) ==
    IF qs = << >> THEN 0 ELSE Head(qs).estimated_time_seconds + sum_seconds(Tail(qs))

\* the u32 sum of the estimated times overflows
duration_overflows(qs) == sum_seconds(qs) > U32_MAX

\* Quiz::update_estimated_duration where the sum does not panic: the new
\* estimated_duration_minutes for questions qs
update_estimated_duration(qs) ==
    LET total_seconds == sum_seconds(qs) % U32_LIMIT
    IN f32_max(total_seconds \div SecondsPerMinute, 1)

\* position, were the last question with the id found instead of the first
position_last(qs, question_id) ==
    IF \E i \in 1..Len(qs) : qs[i].id = question_id
    THEN CHOOSE i \in 1..Len(qs) :
            /\ qs[i].id = question_id
            /\ \A j \in (i + 1)..Len(qs) : qs[j].id # question_id
    ELSE 0

\* self.questions.iter().position(|q| q.id == question_id): 0 for None
position(qs, question_id) ==
    IF \E i \in 1..Len(qs) : qs[i].id = question_id
    THEN CHOOSE i \in 1..Len(qs) :
            /\ qs[i].id = question_id
            /\ \A j \in 1..(i - 1) : qs[j].id # question_id
    ELSE 0

\* Vec::remove(pos), pos counted from 1
remove(qs, pos) == SubSeq(qs, 1, pos - 1) \o SubSeq(qs, pos + 1, Len(qs))

\* the tail of add_question and remove_question on the new question list qs:
\* update_difficulty_range, update_estimated_duration, updated_at = Utc::now()
Recompute(call, qs) ==
    /\ difficulty_range' = update_difficulty_range(qs)
    /\ \/ \* the sum in update_estimated_duration panics
          /\ duration_overflows(qs)
          /\ overflow_checks # "off"
          /\ overflow_checks' = "on"
          /\ panicked' = TRUE
          /\ last' = Failed(call.op, "panic")
          /\ UNCHANGED <<estimated_duration_minutes, updated_at, now>>
       \/ \* no overflow, or the build wraps
          /\ duration_overflows(qs) => overflow_checks # "on"
          /\ overflow_checks' = IF duration_overflows(qs) THEN "off" ELSE overflow_checks
          /\ UNCHANGED panicked
          /\ estimated_duration_minutes' = update_estimated_duration(qs)
          /\ \E t \in now..MaxClock : updated_at' = t /\ now' = t
          /\ last' = call

\* add_question, were the topic id pushed whether present or not
add_question_push_topic(question) ==
    /\ CanCall
    /\ ncalls' = ncalls + 1
    /\ UNCHANGED <<session, hist, succeeded, paused_at, validation, created_at,
                   randomize_questions, randomize_options, scoring>>
    /\ returned' = << >>
    /\ added_topics' = added_topics \cup {question.topic_id}
    /\ topic_ids' = Append(topic_ids, question.topic_id)
    /\ questions' = Append(questions, question)
    /\ Recompute([Returned("add_question") EXCEPT
                      !.question = question.id,
                      !.before = <<questions, difficulty_range,
                                   estimated_duration_minutes>>],
                 questions')

\* Quiz::add_question
add_question(question) ==
    /\ CanCall
    /\ ncalls' = ncalls + 1
    /\ UNCHANGED <<session, hist, succeeded, paused_at, validation, created_at,
                   randomize_questions, randomize_options, scoring>>
    /\ returned' = << >>
    /\ added_topics' = added_topics \cup {question.topic_id}
    /\ topic_ids' = IF contains(topic_ids, question.topic_id)
                    THEN topic_ids
                    ELSE Append(topic_ids, question.topic_id)
    /\ questions' = Append(questions, question)
    /\ Recompute([Returned("add_question") EXCEPT
                      !.question = question.id,
                      !.before = <<questions, difficulty_range,
                                   estimated_duration_minutes>>],
                 questions')

\* Quiz::remove_question: last.ok for Some(removed), last.question its id, last.index
\* the position it was found at, returned the Option
remove_question(question_id) ==
    LET pos == position(questions, question_id) IN
    /\ CanCall
    /\ ncalls' = ncalls + 1
    /\ UNCHANGED <<session, hist, succeeded, paused_at, validation, created_at, topic_ids,
                   randomize_questions, randomize_options, added_topics, scoring>>
    /\ IF pos # 0
       THEN /\ questions' = remove(questions, pos)
            /\ Recompute([Returned("remove_question") EXCEPT
                              !.question = question_id, !.index = pos],
                         questions')
       ELSE /\ last' = [Returned("remove_question") EXCEPT
                           !.ok = FALSE, !.question = question_id]
            /\ UNCHANGED <<questions, difficulty_range, estimated_duration_minutes,
                           updated_at, now, overflow_checks, panicked>>
    /\ returned' = IF pos # 0 /\ ~panicked' THEN <<questions[pos]>> ELSE << >>

\* questions.shuffle(&mut rng): the orders the shuffle can leave
shuffle(qs) ==
    {[i \in 1..Len(qs) |-> qs[f[i]]] : f \in Permutations(1..Len(qs))}

\* get_questions_for_session, were randomize_options to shuffle the questions too
questions_for_session_by_options(qs, randomize_q, randomize_o) ==
    IF randomize_q \/ randomize_o THEN shuffle(qs) ELSE {qs}

\* Quiz::get_questions_for_session: the vectors the call can return
questions_for_session(qs, randomize_q, randomize_o) ==
    IF randomize_q THEN shuffle(qs) ELSE {qs}

\* Quiz::get_questions_for_session
get_questions_for_session ==
    /\ CanCall
    /\ ncalls' = ncalls + 1
    /\ returned' \in questions_for_session(questions, randomize_questions,
                                           randomize_options)
    /\ last' = Returned("get_questions_for_session")
    /\ UNCHANGED <<session, hist, succeeded, paused_at, validation, quiz, added_topics,
                   scoring, now, overflow_checks, panicked>>

\* quiz.randomize_questions = b
set_randomize_questions(b) ==
    /\ ~panicked
    /\ randomize_questions # b
    /\ randomize_questions' = b
    /\ UNCHANGED <<session, now, overflow_checks, panicked, ncalls, last, hist, succeeded,
                   paused_at, validation, questions, topic_ids, difficulty_range,
                   estimated_duration_minutes, created_at, updated_at,
                   randomize_options, quiz_calls, scoring>>

\* quiz.randomize_options = b
set_randomize_options(b) ==
    /\ ~panicked
    /\ randomize_options # b
    /\ randomize_options' = b
    /\ UNCHANGED <<session, now, overflow_checks, panicked, ncalls, last, hist, succeeded,
                   paused_at, validation, questions, topic_ids, difficulty_range,
                   estimated_duration_minutes, created_at, updated_at,
                   randomize_questions, quiz_calls, scoring>>

\* the questions added: difficulties across [0, 1] and at its ends, an edited clone
\* keeping its id, and one estimated time at u32::MAX
QuizQuestions ==
    {Question(1, TrueFalseQ(TRUE), 1, 30, DefaultTimeSeconds),
     Question(1, TrueFalseQ(TRUE), 1, 70, DefaultTimeSeconds),
     Question(2, TrueFalseQ(TRUE), 2, 50, U32_MAX),
     Question(3, TrueFalseQ(TRUE), 2, 100, DefaultTimeSeconds),
     Question(4, TrueFalseQ(TRUE), 3, 0, DefaultTimeSeconds)}

\* the ids remove_question is called with, the last of no question
RemoveIds == 1..5

\* a quiz constructed at clock reading 0
InitQuiz ==
    /\ new(0)
    /\ NoValidation
    /\ Quiz_new(0)
    /\ NoScoring

NextQuiz ==
    \/ \E q \in QuizQuestions : add_question(q)
    \/ \E id \in RemoveIds : remove_question(id)
    \/ get_questions_for_session
    \/ \E b \in BOOLEAN : set_randomize_questions(b)
    \/ \E b \in BOOLEAN : set_randomize_options(b)

SpecQuiz == InitQuiz /\ [][NextQuiz]_vars

----------------------------------------------------------------------------
(* f32 arithmetic of the scores, kept exact: an f32 is a fraction in lowest terms *)
(* with a positive denominator; rounding is not modelled                        *)

abs(n) == IF n < 0 THEN 0 - n ELSE n

RECURSIVE gcd(_, _)
gcd(a, b) == IF b = 0 THEN a ELSE gcd(b, a % b)

\* the fraction n / d, d # 0
Frac(n, d) ==
    LET g == gcd(abs(n), abs(d))
        sign == IF d < 0 THEN 0 - 1 ELSE 1
    IN [num |-> sign * (n \div g), den |-> sign * (d \div g)]

\* n as f32
F(n) == Frac(n, 1)
One == F(1)

fadd(a, b) == Frac(a.num * b.den + b.num * a.den, a.den * b.den)
fsub(a, b) == Frac(a.num * b.den - b.num * a.den, a.den * b.den)
fmul(a, b) == Frac(a.num * b.num, a.den * b.den)
\* a / b, b # 0.0
fdiv(a, b) == Frac(a.num * b.den, a.den * b.num)
flt(a, b) == a.num * b.den < b.num * a.den
\* f32::max, f32::min
fmax(a, b) == IF flt(a, b) THEN b ELSE a
fmin(a, b) == IF flt(b, a) THEN b ELSE a

\* the sum of a sequence of f32, from 0.0
RECURSIVE fsum(_)
fsum(xs) == IF xs = << >> THEN Zero ELSE fadd(Head(xs), fsum(Tail(xs)))

\* the greatest k in lo..hi-1 with k * k <= x, given lo * lo <= x < hi * hi
RECURSIVE isqrt(_, _, _)
isqrt(x, lo, hi) ==
    IF hi - lo <= 1 THEN lo
    ELSE LET mid == (lo + hi) \div 2
         IN IF mid * mid <= x THEN isqrt(x, mid, hi) ELSE isqrt(x, lo, mid)

\* f32::sqrt of v >= 0.0, exact when v is the square of a multiple of
\* 1 / SqrtDigits and cut to a multiple of 1 / (v.den * SqrtDigits) otherwise
fsqrt(v) == Frac(isqrt(v.num * v.den * SqrtDigits * SqrtDigits, 0, 46341),
                v.den * SqrtDigits)

----------------------------------------------------------------------------
(* Scoring *)

Score(raw, weighted, time_bonus, difficulty_bonus, streak_bonus, components) ==
    [raw_score |-> raw, weighted_score |-> weighted, percentile |-> None,
     time_bonus |-> time_bonus, difficulty_bonus |-> difficulty_bonus,
     streak_bonus |-> streak_bonus, components |-> components]

ScoreComponents(correctness, speed, difficulty, consistency) ==
    [correctness |-> correctness, speed |-> speed, difficulty |-> difficulty,
     consistency |-> consistency]

\* simple_score, were total the number of responses
simple_score_answered(s, qs) ==
    LET total == Len(s.responses)
        correct == Cardinality({i \in 1..Len(s.responses) : s.responses[i].is_correct})
        raw_score == IF total > 0 THEN Frac(correct, total) ELSE Zero
    IN Score(raw_score, raw_score, Zero, Zero, Zero,
             ScoreComponents(raw_score, Zero, Zero, Zero))

\* ScoringStrategy::simple_score
simple_score(s, qs) ==
    LET total == Len(qs)
        correct == Cardinality({i \in 1..Len(s.responses) : s.responses[i].is_correct})
        raw_score == IF total > 0 THEN Frac(correct, total) ELSE Zero
    IN Score(raw_score, raw_score, Zero, Zero, Zero,
             ScoreComponents(raw_score, Zero, Zero, Zero))

\* question_map.get(&question_id): the position in qs of the entry the HashMap keeps
\* for the id (the last inserted), 0 for None
question_map_get(qs, question_id) ==
    IF \E i \in 1..Len(qs) : qs[i].id = question_id
    THEN CHOOSE i \in 1..Len(qs) :
            /\ qs[i].id = question_id
            /\ \A j \in (i + 1)..Len(qs) : qs[j].id # question_id
    ELSE 0

\* time_points, were the points not held at 0.0 from below
time_points_unclamped(r, base_time_seconds, penalty_per_second) ==
    LET base_points == IF r.is_correct THEN One ELSE Zero
        time_penalty == IF r.time_taken_seconds > base_time_seconds
                        THEN fmul(F(r.time_taken_seconds - base_time_seconds),
                                 penalty_per_second)
                        ELSE Zero
    IN fsub(base_points, time_penalty)

\* the points time_weighted_score adds for response r
time_points(r, base_time_seconds, penalty_per_second) ==
    LET base_points == IF r.is_correct THEN One ELSE Zero
        time_penalty == IF r.time_taken_seconds > base_time_seconds
                        THEN fmul(F(r.time_taken_seconds - base_time_seconds),
                                 penalty_per_second)
                        ELSE Zero
    IN fmax(fsub(base_points, time_penalty), Zero)

\* ScoringStrategy::time_weighted_score
time_weighted_score(s, qs, base_time_seconds, penalty_per_second) ==
    LET total_score ==
            fsum([i \in 1..Len(s.responses) |->
                    IF question_map_get(qs, s.responses[i].question_id) # 0
                    THEN time_points(s.responses[i], base_time_seconds,
                                     penalty_per_second)
                    ELSE Zero])
        max_score == Len(qs)
        weighted_score == IF max_score > 0 THEN fdiv(total_score, F(max_score)) ELSE Zero
        raw_score == simple_score(s, qs).raw_score
    IN Score(raw_score, weighted_score, fsub(weighted_score, raw_score), Zero, Zero,
             ScoreComponents(raw_score, fsub(weighted_score, raw_score), Zero, Zero))

\* multiplier, were a difficulty at a bucket's bound still in the bucket below
multiplier_at_most(q, easy_multiplier, medium_multiplier, hard_multiplier) ==
    IF q.difficulty <= EasyBelow THEN easy_multiplier
    ELSE IF q.difficulty <= MediumBelow THEN medium_multiplier
    ELSE hard_multiplier

\* the multiplier of question q: match question.difficulty, in hundredths
multiplier(q, easy_multiplier, medium_multiplier, hard_multiplier) ==
    IF q.difficulty < EasyBelow THEN easy_multiplier
    ELSE IF q.difficulty < MediumBelow THEN medium_multiplier
    ELSE hard_multiplier

\* ScoringStrategy::difficulty_weighted_score
difficulty_weighted_score(s, qs, easy_multiplier, medium_multiplier, hard_multiplier) ==
    LET found(i) == question_map_get(qs, s.responses[i].question_id)
        of(q) == multiplier(q, easy_multiplier, medium_multiplier, hard_multiplier)
        total_score ==
            fsum([i \in 1..Len(s.responses) |->
                    IF found(i) # 0 /\ s.responses[i].is_correct
                    THEN of(qs[found(i)]) ELSE Zero])
        answered ==
            fsum([i \in 1..Len(s.responses) |->
                    IF found(i) # 0 THEN of(qs[found(i)]) ELSE Zero])
        \* questions.get(question_index), the index counted from 0
        skipped ==
            fsum([i \in 1..Len(s.skipped_questions) |->
                    IF s.skipped_questions[i] < Len(qs)
                    THEN of(qs[s.skipped_questions[i] + 1]) ELSE Zero])
        max_possible == fadd(answered, skipped)
        weighted_score == IF flt(Zero, max_possible)
                          THEN fdiv(total_score, max_possible) ELSE Zero
        raw_score == simple_score(s, qs).raw_score
    IN Score(raw_score, weighted_score, Zero, fsub(weighted_score, raw_score), Zero,
             ScoreComponents(raw_score, Zero, fsub(weighted_score, raw_score), Zero))

\* ScoringStrategy::calculate_difficulty_score; difficulties are hundredths
calculate_difficulty_score(s, qs) ==
    LET found(i) == question_map_get(qs, s.responses[i].question_id)
        difficulty_sum ==
            fsum([i \in 1..Len(s.responses) |->
                    IF found(i) # 0 THEN Frac(qs[found(i)].difficulty, 100) ELSE Zero])
        correct_difficulty_sum ==
            fsum([i \in 1..Len(s.responses) |->
                    IF found(i) # 0 /\ s.responses[i].is_correct
                    THEN Frac(qs[found(i)].difficulty, 100) ELSE Zero])
    IN IF flt(Zero, difficulty_sum)
       THEN fdiv(correct_difficulty_sum, difficulty_sum) ELSE Zero

\* max_streak, were the running count not reset by an incorrect response
max_streak_total(rs) == Cardinality({i \in 1..Len(rs) : rs[i].is_correct})

\* the longest run of correct responses in rs
max_streak(rs) ==
    LET runs == {<<i, j>> \in (1..Len(rs)) \X (1..Len(rs)) :
                    i <= j /\ \A k \in i..j : rs[k].is_correct}
    IN IF runs = {} THEN 0
       ELSE CHOOSE n \in 1..Len(rs) :
               /\ \E r \in runs : r[2] - r[1] + 1 = n
               /\ \A r \in runs : r[2] - r[1] + 1 <= n

\* ScoringStrategy::calculate_streak_score
calculate_streak_score(rs) ==
    IF rs = << >> THEN Zero ELSE Frac(max_streak(rs), Len(rs))

\* ScoringStrategy::calculate_consistency_score; with a mean of 0.0 the coefficient
\* of variation is 0.0 / 0.0 = NaN and f32::min(NaN, 1.0) is 1.0
calculate_consistency_score(rs) ==
    IF Len(rs) < 2 THEN One
    ELSE LET times == [i \in 1..Len(rs) |-> F(rs[i].time_taken_seconds)]
             mean_time == fdiv(fsum(times), F(Len(times)))
             variance ==
                 fdiv(fsum([i \in 1..Len(times) |->
                              fmul(fsub(times[i], mean_time), fsub(times[i], mean_time))]),
                      F(Len(times)))
             std_dev == fsqrt(variance)
         IN IF mean_time = Zero THEN One
            ELSE fmin(fdiv(One, fadd(One, fdiv(std_dev, mean_time))), One)

\* usize::max(1) of a length
at_least_one(n) == IF n >= 1 THEN n ELSE 1

\* adaptive_score, were the component scores added up without their weights
adaptive_score_unweighted(s, qs, time_weight, difficulty_weight, streak_weight, consistency_weight) ==
    LET total_weight == fadd(fadd(fadd(time_weight, difficulty_weight), streak_weight),
                             consistency_weight)
        correctness_score == simple_score(s, qs).raw_score
        avg_time ==
            fdiv(fsum([i \in 1..Len(s.responses) |->
                         F(s.responses[i].time_taken_seconds)]),
                 F(at_least_one(Len(s.responses))))
        expected_avg_time ==
            fdiv(fsum([i \in 1..Len(qs) |-> F(qs[i].estimated_time_seconds)]),
                 F(at_least_one(Len(qs))))
        time_score == fmin(fdiv(expected_avg_time, fmax(avg_time, One)), One)
        difficulty_score == calculate_difficulty_score(s, qs)
        streak_score == calculate_streak_score(s.responses)
        consistency_score == calculate_consistency_score(s.responses)
        weighted_score ==
            fdiv(fadd(fadd(fadd(fadd(correctness_score, time_score), difficulty_score),
                           streak_score),
                      consistency_score),
                 fadd(One, total_weight))
    IN Score(correctness_score, weighted_score,
             time_score, difficulty_score, streak_score,
             ScoreComponents(correctness_score, time_score, difficulty_score,
                             consistency_score))

\* ScoringStrategy::adaptive_score
adaptive_score(s, qs, time_weight, difficulty_weight, streak_weight, consistency_weight) ==
    LET total_weight == fadd(fadd(fadd(time_weight, difficulty_weight), streak_weight),
                             consistency_weight)
        correctness_score == simple_score(s, qs).raw_score
        avg_time ==
            fdiv(fsum([i \in 1..Len(s.responses) |->
                         F(s.responses[i].time_taken_seconds)]),
                 F(at_least_one(Len(s.responses))))
        expected_avg_time ==
            fdiv(fsum([i \in 1..Len(qs) |-> F(qs[i].estimated_time_seconds)]),
                 F(at_least_one(Len(qs))))
        time_score == fmin(fdiv(expected_avg_time, fmax(avg_time, One)), One)
        difficulty_score == calculate_difficulty_score(s, qs)
        streak_score == calculate_streak_score(s.responses)
        consistency_score == calculate_consistency_score(s.responses)
        weighted_score ==
            fdiv(fadd(fadd(fadd(fadd(fmul(correctness_score, One),
                                     fmul(time_score, time_weight)),
                                fmul(difficulty_score, difficulty_weight)),
                           fmul(streak_score, streak_weight)),
                      fmul(consistency_score, consistency_weight)),
                 fadd(One, total_weight))
    IN Score(correctness_score, weighted_score,
             fmul(time_score, time_weight),
             fmul(difficulty_score, difficulty_weight),
             fmul(streak_score, streak_weight),
             ScoreComponents(correctness_score, time_score, difficulty_score,
                             consistency_score))

\* ScoringStrategy::calculate_score
calculate_score(self_, s, qs) ==
    CASE self_.kind = "Simple" -> simple_score(s, qs)
      [] self_.kind = "TimeWeighted" ->
            time_weighted_score(s, qs, self_.base_time_seconds, self_.penalty_per_second)
      [] self_.kind = "DifficultyWeighted" ->
            difficulty_weighted_score(s, qs, self_.easy_multiplier,
                                      self_.medium_multiplier, self_.hard_multiplier)
      [] self_.kind = "Adaptive" ->
            adaptive_score(s, qs, self_.time_weight, self_.difficulty_weight,
                           self_.streak_weight, self_.consistency_weight)

\* the questions scored: an easy one, a hard one and one at the lower end of medium
ScoredPool ==
    {Question(1, TrueFalseQ(TRUE), 1, 20, DefaultTimeSeconds),
     Question(2, TrueFalseQ(TRUE), 1, 67, DefaultTimeSeconds),
     Question(3, TrueFalseQ(TRUE), 1, 33, DefaultTimeSeconds)}

\* question lists without a repeated question
ScoredQuestionLists ==
    {qs \in SeqsUpTo(ScoredPool, MaxQuestions) :
        \A i, j \in 1..Len(qs) : qs[i] = qs[j] => i = j}

\* the times responses take: none, and twice the estimated time
ResponseTimes == {0, 2 * DefaultTimeSeconds}

\* responses to the easy and the hard question, to either more than once
ScoredResponses ==
    {QuestionResponse(qid, TrueFalseA(c), c, secs, 1, 0) :
        qid \in {1, 2}, c \in BOOLEAN, secs \in ResponseTimes}

\* the indices skipped: none, the first question, an index past every list
ScoredSkips == {<< >>, <<0>>, <<MaxQuestions>>}

\* sessions as create_session_with_responses builds them
ScoredSessions ==
    {[responses |-> rs, skipped_questions |-> sk] :
        rs \in SeqsUpTo(ScoredResponses, MaxResponses), sk \in ScoredSkips}

\* sessions as test_streak_calculation builds them: every pattern of correct and
\* wrong responses of one length, each response taking the estimated time
StreakSessions ==
    {[responses |-> [i \in 1..(MaxResponses + 2) |->
                        QuestionResponse(1 + (i % 2), TrueFalseA(mask[i]), mask[i],
                                         DefaultTimeSeconds, 1, 0)],
      skipped_questions |-> << >>] :
        mask \in [1..(MaxResponses + 2) -> BOOLEAN]}

\* the strategies: the ones of the tests, a penalty and multipliers below 0.0,
\* and Adaptive with no weight, each weight alone and all four
ScoredStrategies ==
    {Simple,
     TimeWeighted(DefaultTimeSeconds, Frac(1, 100)),
     TimeWeighted(DefaultTimeSeconds, Frac(0 - 1, 100)),
     DifficultyWeighted(One, Frac(3, 2), F(2)),
     DifficultyWeighted(F(0 - 1), F(0 - 1), F(0 - 1)),
     Adaptive(Zero, Zero, Zero, Zero),
     Adaptive(One, Zero, Zero, Zero),
     Adaptive(Zero, One, Zero, Zero),
     Adaptive(Zero, Zero, One, Zero),
     Adaptive(Zero, Zero, Zero, One),
     Adaptive(Frac(1, 2), Frac(1, 2), Frac(1, 2), Frac(1, 2))}

\* a strategy, a session and a question list, not yet scored
InitScore ==
    /\ new(0)
    /\ NoValidation
    /\ Quiz_new(0)
    /\ scored_session \in ScoredSessions \cup StreakSessions
    /\ scored_questions \in ScoredQuestionLists
    /\ strategy \in ScoredStrategies
    /\ v_score = None

\* strategy.calculate_score(&session, &questions)
CalculateScore ==
    /\ v_score = None
    /\ v_score' = Some(calculate_score(strategy, scored_session, scored_questions))
    /\ UNCHANGED <<session, now, overflow_checks, panicked, ncalls, last, hist,
                   succeeded, paused_at, validation, quiz, quiz_calls,
                   scored_session, scored_questions, strategy>>

NextScore == CalculateScore

SpecScore == InitScore /\ [][NextScore]_vars

----------------------------------------------------------------------------
(* Properties of the session state machine *)

\* this step is a call of op
Called(op) == ncalls' # ncalls /\ last'.op = op

QuestionById(id) == CHOOSE q \in SessionQuestions : q.id = id

Terminal == {"Completed", "Abandoned"}

\* C1: start() returns Ok exactly when the state is NotStarted; it then moves the state
\* to InProgress and sets start_time to the clock's reading; in every other state it
\* returns the error and changes nothing; at most one start() ever returns Ok.
C1_StartOnce ==
    [][ /\ Called("start") =>
            /\ last'.ok <=> state = "NotStarted"
            /\ last'.ok => /\ state' = "InProgress"
                           /\ is_some(start_time')
                           /\ unwrap(start_time') \in now..now'
            /\ ~last'.ok => /\ last'.err = "Session already started"
                            /\ state' = state
                            /\ start_time' = start_time
        /\ succeeded'.start <= 1 ]_vars

\* C1 witness: a second start(), on a paused session, has failed
C1_Witness ==
    /\ last.op = "start" /\ ~last.ok
    /\ state = "Paused"
    /\ succeeded.start = 1

\* C2: pause() returns Ok exactly from InProgress and moves the state to Paused;
\* resume() returns Ok exactly from Paused and moves the state to InProgress; in every
\* other state each returns its error and leaves the state as it was.
C2_PauseResume ==
    [][ /\ Called("pause") =>
            /\ last'.ok <=> state = "InProgress"
            /\ last'.ok => state' = "Paused"
            /\ ~last'.ok => /\ last'.err = "Can only pause an in-progress session"
                            /\ state' = state
        /\ Called("resume") =>
            /\ last'.ok <=> state = "Paused"
            /\ last'.ok => state' = "InProgress"
            /\ ~last'.ok => /\ last'.err = "Can only resume a paused session"
                            /\ state' = state ]_vars

\* C2 witness: a resume() of a paused session has succeeded
C2_Witness ==
    /\ last.op = "resume" /\ last.ok
    /\ state = "InProgress"
    /\ pause_duration > 0

\* C3: complete() returns Ok only from InProgress, and then the state is Completed and
\* end_time is set; from InProgress it returns Ok unless the summary's sum of times
\* overflows; from every other state it returns its error and leaves the state and
\* end_time as they were; at most one complete() ever returns Ok.
C3_CompleteOnce ==
    [][ /\ Called("complete") =>
            /\ last'.ok => /\ state = "InProgress"
                           /\ state' = "Completed"
                           /\ is_some(end_time')
                           /\ unwrap(end_time') \in now..now'
            /\ (state = "InProgress" /\ sum_times(responses) <= U32_MAX) => last'.ok
            /\ state # "InProgress" =>
                   /\ ~last'.ok
                   /\ last'.err = "Can only complete an in-progress session"
                   /\ state' = state
                   /\ end_time' = end_time
        /\ succeeded'.complete <= 1 ]_vars

\* C3 witness: complete() failed on a paused session, which was then resumed and completed
C3_Witness ==
    /\ last.op = "complete" /\ last.ok
    /\ state = "Completed"
    /\ succeeded.complete = 1
    /\ ncalls = 4

\* C4: abandon() always returns, leaves the state Abandoned and sets end_time to the
\* clock's reading, whatever the state was.
C4_AbandonAlways ==
    [][ Called("abandon") =>
            /\ last'.ok
            /\ state' = "Abandoned"
            /\ is_some(end_time')
            /\ unwrap(end_time') \in now..now' ]_vars

\* C4 witness: abandon() was called on a completed session
C4_Witness ==
    /\ last.op = "abandon"
    /\ state = "Abandoned"
    /\ succeeded.complete = 1

\* C5: once the state is Completed or Abandoned, no call changes any field of the session.
C5_TerminalImmutable ==
    [][ (state \in Terminal) => UNCHANGED session ]_vars

\* a guarded call made in a state that forbids it
Forbidden ==
    \/ Called("start") /\ state # "NotStarted"
    \/ Called("pause") /\ state # "InProgress"
    \/ Called("resume") /\ state # "Paused"
    \/ Called("submit_answer") /\ state # "InProgress"
    \/ Called("next_question") /\ state # "InProgress"
    \/ Called("previous_question") /\ (state # "InProgress" \/ current_question_index = 0)
    \/ Called("complete") /\ state # "InProgress"

\* C6: a guarded call made in a state that forbids it, or previous_question at index 0,
\* returns an error (it does not panic) and leaves every field of the session as it was.
C6_RejectedCallsChangeNothing ==
    [][ Forbidden =>
            /\ ~last'.ok
            /\ last'.err # "panic"
            /\ ~panicked'
            /\ (UNCHANGED session) ]_vars

\* C6 witness: previous_question was rejected at index 0 of a session in progress
C6_Witness ==
    /\ last.op = "previous_question" /\ ~last.ok
    /\ last.err = "Already at first question"
    /\ state = "InProgress"
    /\ current_question_index = 0

\* C7: submit_answer returns Ok only while the state is InProgress, and the bool it
\* returns is the one validate_answer computes for the question and the answer submitted
\* and the is_correct of the question's response; in any other state it returns
\* "Session is not in progress" and the responses are as they were.
C7_SubmitReturnsCorrectness ==
    [][ Called("submit_answer") =>
            /\ last'.ok =>
                  LET q == QuestionById(last'.question)
                      v == validate_answer(q, hist'[q.id].answer)
                  IN /\ state = "InProgress"
                     /\ hist'[q.id].n = hist[q.id].n + 1
                     /\ v.ok
                     /\ last'.value = v.value
                     /\ \E i \in 1..Len(responses') :
                           /\ responses'[i].question_id = q.id
                           /\ responses'[i].is_correct = last'.value
            /\ state # "InProgress" =>
                  /\ ~last'.ok
                  /\ last'.err = "Session is not in progress"
                  /\ responses' = responses ]_vars

\* C7 witness: a resubmission returned Ok(true) after a submission that returned Ok(false)
C7_Witness ==
    /\ last.op = "submit_answer" /\ last.ok /\ last.value
    /\ hist[last.question].n = 2
    /\ Len(responses) = 1
    /\ responses[1].is_correct

\* C8: the responses hold at most one response per question id, and a successful
\* submit_answer for a question that has a response leaves the list's length and the
\* order of its question ids as they were.
C8_OneResponsePerQuestion ==
    /\ [](\A i, j \in 1..Len(responses) :
             responses[i].question_id = responses[j].question_id => i = j)
    /\ [][ ( /\ Called("submit_answer")
             /\ last'.ok
             /\ \E i \in 1..Len(responses) : responses[i].question_id = last'.question )
           => /\ Len(responses') = Len(responses)
              /\ \A i \in 1..Len(responses) :
                    responses'[i].question_id = responses[i].question_id ]_vars

\* C8 witness: two questions answered, the first of them twice
C8_Witness ==
    /\ Len(responses) = 2
    /\ responses[1].attempts = 2
    /\ hist[responses[1].question_id].n = 2
    /\ last.op = "submit_answer" /\ last.ok /\ last.question = responses[1].question_id

\* C9: after n >= 1 successful submit_answer calls for a question with times t1..tn
\* (and no call that panicked), its response has attempts = n,
\* time_taken_seconds = t1 + ... + tn, and the answer and is_correct of the last
\* submission.
C9_ResubmitAccumulates ==
    \A q \in QuestionIds :
        (hist[q].n >= 1 /\ ~panicked) =>
            \E i \in 1..Len(responses) :
                /\ responses[i].question_id = q
                /\ responses[i].attempts = hist[q].n
                /\ responses[i].time_taken_seconds = hist[q].total
                /\ responses[i].answer = hist[q].answer
                /\ responses[i].is_correct = hist[q].is_correct

NoDuplicates(s) == \A i, j \in 1..Len(s) : s[i] = s[j] => i = j

\* C10: skip_question returns in every state; the skipped list never holds an index
\* twice; a call with an index already in the list leaves the list as it was, a call
\* with a new index appends it; no call of it changes the state, the responses or the
\* current index.
C10_SkipIdempotent ==
    /\ [] NoDuplicates(skipped_questions)
    /\ [][ Called("skip_question") =>
              /\ last'.ok
              /\ state' = state
              /\ responses' = responses
              /\ current_question_index' = current_question_index
              /\ contains(skipped_questions, last'.index) =>
                     skipped_questions' = skipped_questions
              /\ ~contains(skipped_questions, last'.index) =>
                     skipped_questions' = Append(skipped_questions, last'.index) ]_vars

\* C10 witness: skip_question was called, on a completed session, with an index skipped before
C10_Witness ==
    /\ last.op = "skip_question" /\ last.value
    /\ state = "Completed"
    /\ Len(skipped_questions) = 1

\* C11: in InProgress next_question adds exactly 1 to current_question_index and
\* previous_question subtracts exactly 1 when the index is above 0; previous_question
\* at index 0 returns "Already at first question" and leaves the index 0; both return
\* an error in every other state; the index is the number of successful next calls
\* minus the number of successful previous calls, and is never below 0.
C11_Navigation ==
    /\ [](/\ current_question_index
                = succeeded.next_question - succeeded.previous_question
          /\ current_question_index >= 0)
    /\ [][ /\ Called("next_question") =>
               /\ last'.ok <=> state = "InProgress"
               /\ last'.ok => current_question_index' = current_question_index + 1
               /\ ~last'.ok => /\ current_question_index' = current_question_index
                               /\ last'.err = "Session is not in progress"
           /\ Called("previous_question") =>
               /\ last'.ok <=> (state = "InProgress" /\ current_question_index > 0)
               /\ last'.ok => current_question_index' = current_question_index - 1
               /\ ~last'.ok => current_question_index' = current_question_index
               /\ (state = "InProgress" /\ current_question_index = 0) =>
                      (last'.err = "Already at first question"
                          /\ current_question_index' = 0)
               /\ state # "InProgress" => last'.err = "Session is not in progress" ]_vars

\* C11 witness: after one next and one previous, a second previous was rejected at index 0
C11_Witness ==
    /\ last.op = "previous_question" /\ ~last.ok
    /\ last.err = "Already at first question"
    /\ succeeded.next_question = 1
    /\ succeeded.previous_question = 1
    /\ current_question_index = 0

\* the clock reading a successful resume() step subtracted last_activity from
ResumeReading == last_activity + (pause_duration' - pause_duration)

\* C12 (first part): a successful resume() adds exactly (clock reading - last_activity)
\* to pause_duration and then sets last_activity to the clock's reading; no other call
\* changes pause_duration; it starts at zero and never decreases.
C12_ResumeAddsPause ==
    /\ pause_duration = 0
    /\ [][ /\ (Called("resume") /\ last'.ok) =>
                /\ ResumeReading \in now..now'
                /\ last_activity' \in ResumeReading..now'
           /\ ~(Called("resume") /\ last'.ok) => pause_duration' = pause_duration
           /\ pause_duration' >= pause_duration ]_vars

\* C12: as C12_ResumeAddsPause, and pause_duration is strictly greater after a
\* pause/resume pair during which the clock advanced: a successful resume() whose clock
\* reading is later than the reading its pause() took.
C12_PauseDuration ==
    /\ C12_ResumeAddsPause
    /\ [][ (Called("resume") /\ last'.ok /\ ResumeReading > unwrap(paused_at)) =>
               pause_duration' > pause_duration ]_vars

\* the fraction r is n / d
RatioIs(r, n, d) == r.den > 0 /\ r.num * d = n * r.den

RECURSIVE CountCorrect(_)
CountCorrect(rs) ==
    IF rs = << >> THEN 0
    ELSE (IF Head(rs).is_correct THEN 1 ELSE 0) + CountCorrect(Tail(rs))

\* the counts and rates of summary sum are those of responses rs and skipped indices sk
SummaryCounts(sum, rs, sk) ==
    LET total == Len(rs) + Len(sk) IN
    /\ sum.total_questions = total
    /\ sum.correct_answers = CountCorrect(rs)
    /\ sum.skipped_questions = Len(sk)
    /\ IF total = 0
       THEN sum.score.num = 0 /\ sum.completion_rate.num = 0
       ELSE /\ RatioIs(sum.score, CountCorrect(rs), total)
            /\ RatioIs(sum.completion_rate, Len(rs), total)

\* C13: the summary has total_questions = responses + skipped indices, correct_answers =
\* responses with is_correct, skipped_questions = skipped indices, score =
\* correct_answers / total_questions and completion_rate = responses / total_questions,
\* both 0 when total_questions is 0: for the summary of every reachable session, and for
\* the summary complete() returns.
C13_SummaryCounts ==
    /\ [] SummaryCounts(generate_summary(self, now), responses, skipped_questions)
    /\ [][ (Called("complete") /\ last'.ok) =>
               SummaryCounts(last'.summary, responses', skipped_questions') ]_vars

\* C13 witness: complete() returned the summary of one correct response and one skipped index
C13_Witness ==
    /\ last.op = "complete" /\ last.ok
    /\ last.summary.total_questions = 2
    /\ last.summary.correct_answers = 1
    /\ last.summary.skipped_questions = 1
    /\ last.summary.score = Ratio(1, 2)

\* the times of summary sum are those of responses rs
SummaryTimes(sum, rs) ==
    /\ sum.total_time_seconds = sum_times(rs)
    /\ sum.average_time_per_question =
           IF Len(rs) = 0 THEN 0 ELSE sum_times(rs) \div Len(rs)

\* C14: the summary's total_time_seconds is the sum of the responses' cumulative times and
\* average_time_per_question is that sum divided by the number of responses, truncated,
\* 0 when there are none: for the summary complete() returns.
C14_SummaryTimes ==
    [][ (Called("complete") /\ last'.ok) => SummaryTimes(last'.summary, responses') ]_vars

----------------------------------------------------------------------------
(* Properties of validate_answer, under SpecValidate *)

\* the Result validate_answer returned
Result == unwrap(v_result)

\* the question variants validate_answer scores, each with its one answer variant
Scored == {"TrueFalse", "MultipleChoice", "MultiSelect", "FillInTheBlank", "MatchPairs"}

\* answer a is not of the variant matching question q's
Mismatched(q, a) == q.question_type.kind \in Scored /\ a.kind # q.question_type.kind

\* q is an InteractiveInterview or a TopicExplanation question
Open(q) == q.question_type.kind \in {"InteractiveInterview", "TopicExplanation"}

\* question q and answer a are both of variant kind
Both(q, a, kind) == q.question_type.kind = kind /\ a.kind = kind

\* C15: validate_answer returns Err("Answer type does not match question type") for
\* every answer whose variant is not the one matching the question's, and an error for
\* every answer to an InteractiveInterview or TopicExplanation question; submit_answer
\* then returns that error and records nothing, so no response is ever recorded for
\* such a question.
C15_TypeMismatch ==
    /\ [](is_some(v_result) =>
            /\ Mismatched(v_question, v_answer) =>
                   Result = [ok |-> FALSE, value |-> FALSE,
                             err |-> "Answer type does not match question type"]
            /\ Open(v_question) => ~Result.ok)
    /\ []((Open(v_question) \/ Mismatched(v_question, v_answer)) => responses = << >>)
    /\ [][ (Called("submit_answer")
               /\ (Open(v_question) \/ Mismatched(v_question, v_answer))) =>
              /\ ~last'.ok
              /\ last'.err = "Answer type does not match question type"
              /\ responses' = responses ]_vars

\* C15 witness: a TopicExplanation answer to a TopicExplanation question was rejected by
\* validate_answer and by submit_answer on the started session
C15_Witness ==
    /\ Both(v_question, v_answer, "TopicExplanation")
    /\ is_some(v_result) /\ ~Result.ok
    /\ state = "InProgress"
    /\ last.op = "submit_answer" /\ ~last.ok
    /\ responses = << >>

\* C16: a MultipleChoice or MultiSelect answer with any index >= the number of options
\* yields Err("Invalid option index"), other indices being valid or not; a
\* MultipleChoice answer with index < the number of options yields
\* Ok(index = correct_index).
C16_InvalidIndex ==
    is_some(v_result) =>
        LET qt == v_question.question_type
            n == Len(qt.options)
            invalid == [ok |-> FALSE, value |-> FALSE, err |-> "Invalid option index"]
        IN /\ Both(v_question, v_answer, "MultipleChoice") =>
                /\ v_answer.index >= n => Result = invalid
                /\ v_answer.index < n =>
                       Result = [ok |-> TRUE, err |-> "",
                                 value |-> (v_answer.index = qt.correct_index)]
           /\ Both(v_question, v_answer, "MultiSelect") =>
                ((\E i \in 1..Len(v_answer.indices) : v_answer.indices[i] >= n)
                    => Result = invalid)

\* C16 witness: a MultiSelect answer with a valid index and one equal to the number of
\* options was rejected
C16_Witness ==
    /\ Both(v_question, v_answer, "MultiSelect")
    /\ Len(v_question.question_type.options) = 1
    /\ v_answer.indices = <<0, 1>>
    /\ is_some(v_result) /\ Result.err = "Invalid option index"

\* the rearrangements of sequence s
Rearrangements(s) ==
    {[i \in 1..Len(s) |-> s[f[i]]] :
        f \in {g \in [1..Len(s) -> 1..Len(s)] : \A i, j \in 1..Len(s) : g[i] = g[j] => i = j}}

\* the elements of sequence s
Elements(s) == {s[i] : i \in 1..Len(s)}

Accepted == [ok |-> TRUE, value |-> TRUE, err |-> ""]

\* every rearrangement of the submitted list has the result the submitted list had
SameForPermutations ==
    /\ Both(v_question, v_answer, "MultiSelect") =>
           \A is \in Rearrangements(v_answer.indices) :
               validate_answer(v_question, MultiSelectA(is)) = Result
    /\ Both(v_question, v_answer, "MatchPairs") =>
           \A ps \in Rearrangements(v_answer.pairs) :
               validate_answer(v_question, MatchPairsA(ps)) = Result

\* every correct index of MultiSelect question q is the index of an option
CorrectInRange(q) ==
    \A i \in 1..Len(q.question_type.correct_indices) :
        q.question_type.correct_indices[i] < Len(q.question_type.options)

\* C17, as amended: for MultiSelect and MatchPairs questions, answers that are
\* permutations of each other have the same result; any permutation of the correct
\* pairs yields Ok(true), and any permutation of the correct indices yields Ok(true)
\* when every correct index is below the number of options.
C17_PermutationInvariant ==
    is_some(v_result) =>
        /\ SameForPermutations
        /\ (/\ Both(v_question, v_answer, "MultiSelect")
            /\ CorrectInRange(v_question)
            /\ v_answer.indices \in Rearrangements(v_question.question_type.correct_indices))
               => Result = Accepted
        /\ (/\ Both(v_question, v_answer, "MatchPairs")
            /\ v_answer.pairs \in Rearrangements(v_question.question_type.correct_pairs))
               => Result = Accepted

\* C17 witness: the correct indices 0, 1 submitted as 1, 0 were accepted
C17_Witness ==
    /\ Both(v_question, v_answer, "MultiSelect")
    /\ v_question.question_type.correct_indices = <<0, 1>>
    /\ v_answer.indices = <<1, 0>>
    /\ is_some(v_result) /\ Result = Accepted

\* C17, as stated: ... and any permutation of the correct indices / pairs yields
\* Ok(true), whatever the correct indices are.
C17_AnyPermutationAccepted ==
    is_some(v_result) =>
        /\ SameForPermutations
        /\ (/\ Both(v_question, v_answer, "MultiSelect")
            /\ v_answer.indices \in Rearrangements(v_question.question_type.correct_indices))
               => Result = Accepted
        /\ (/\ Both(v_question, v_answer, "MatchPairs")
            /\ v_answer.pairs \in Rearrangements(v_question.question_type.correct_pairs))
               => Result = Accepted

\* C18: for a MultiSelect answer whose indices are all below the number of options,
\* validate_answer returns Ok(true) exactly when the set of submitted indices equals
\* the set of correct indices, whatever the order and the repetitions in either list,
\* and Ok(false) otherwise.
C18_SetEquality ==
    (/\ is_some(v_result)
     /\ Both(v_question, v_answer, "MultiSelect")
     /\ \A i \in 1..Len(v_answer.indices) :
            v_answer.indices[i] < Len(v_question.question_type.options)) =>
        Result = [ok |-> TRUE, err |-> "",
                  value |-> (Elements(v_answer.indices)
                                = Elements(v_question.question_type.correct_indices))]

\* chars c and d are the same letter in either case, or the same char
SameLetter(c, d) == c = d \/ {c, d} \in {{"a", "A"}, {"b", "B"}}

\* Strings x and y are equal but for the case of their letters
EqualIgnoringCase(x, y) ==
    Len(x) = Len(y) /\ \A k \in 1..Len(x) : SameLetter(x[k], y[k])

\* C19: for a FillInTheBlank question, a different number of submitted and expected
\* strings yields Err("Wrong number of answers"); otherwise the result is Ok(true)
\* exactly when every position matches its expected string, exactly when
\* case_sensitive and but for case when not.
C19_FillInTheBlank ==
    (is_some(v_result) /\ Both(v_question, v_answer, "FillInTheBlank")) =>
        LET qt == v_question.question_type IN
        IF Len(v_answer.strings) # Len(qt.correct_answers)
        THEN Result = [ok |-> FALSE, value |-> FALSE, err |-> "Wrong number of answers"]
        ELSE Result =
                [ok |-> TRUE, err |-> "",
                 value |-> \A i \in 1..Len(qt.correct_answers) :
                              IF qt.case_sensitive
                              THEN v_answer.strings[i] = qt.correct_answers[i]
                              ELSE EqualIgnoringCase(v_answer.strings[i],
                                                     qt.correct_answers[i])]

\* C19 witness: "A", "Ab" submitted for "a", "aB" were accepted by a question that is
\* not case sensitive
C19_Witness ==
    /\ Both(v_question, v_answer, "FillInTheBlank")
    /\ ~v_question.question_type.case_sensitive
    /\ v_question.question_type.correct_answers = << <<"a">>, <<"a", "B">> >>
    /\ v_answer.strings = << <<"A">>, <<"A", "b">> >>
    /\ is_some(v_result) /\ Result = Accepted

----------------------------------------------------------------------------
(* Properties of the quiz, under SpecQuiz *)

\* the difficulties of the questions now in the quiz
Difficulties == {questions[i].difficulty : i \in 1..Len(questions)}

\* C20: after any sequence of add_question and remove_question calls with difficulties
\* in [0, 1], difficulty_range is (least difficulty, greatest difficulty) of the
\* questions now in the quiz, and (0.0, 1.0) when there are none.
C20_DifficultyRange ==
    IF questions = << >>
    THEN difficulty_range = <<0, 100>>
    ELSE /\ difficulty_range[1] \in Difficulties
         /\ difficulty_range[2] \in Difficulties
         /\ \A d \in Difficulties : difficulty_range[1] <= d /\ d <= difficulty_range[2]

\* C20 witness: 0.3, 0.7 and 0.5 were added and the question of 0.3 removed, leaving
\* the range (0.5, 0.7)
C20_Witness ==
    /\ last.op = "remove_question" /\ last.ok
    /\ Len(questions) = 2
    /\ Difficulties = {50, 70}
    /\ difficulty_range = <<50, 70>>

\* C21: after every add_question or remove_question that returns (remove_question
\* with Some), estimated_duration_minutes is max(1, floor(sum of the current questions'
\* estimated_time_seconds / 60)), hence never 0.
C21_EstimatedDuration ==
    [][ ((Called("add_question") \/ Called("remove_question")) /\ last'.ok) =>
            LET minutes == sum_seconds(questions') \div 60 IN
            /\ estimated_duration_minutes' = IF minutes >= 1 THEN minutes ELSE 1
            /\ estimated_duration_minutes' # 0 ]_vars

\* C22: topic_ids has no duplicates and holds exactly the topic ids of the questions
\* ever added; add_question leaves it or appends the question's topic id,
\* remove_question leaves it, so it never shrinks.
C22_TopicIds ==
    /\ [](NoDuplicates(topic_ids) /\ Elements(topic_ids) = added_topics)
    /\ [][ /\ Called("add_question") =>
               \/ topic_ids' = topic_ids
               \/ \E t \in added_topics' \ Elements(topic_ids) :
                      topic_ids' = Append(topic_ids, t)
           /\ Called("remove_question") => topic_ids' = topic_ids
           /\ SubSeq(topic_ids', 1, Len(topic_ids)) = topic_ids ]_vars

\* C22 witness: both questions of a quiz with two topics were removed and both topic
\* ids are kept
C22_Witness ==
    /\ last.op = "remove_question" /\ last.ok
    /\ questions = << >>
    /\ Len(topic_ids) = 2

\* question_id is the id of a question of qs
Present(qs, question_id) == \E i \in 1..Len(qs) : qs[i].id = question_id

\* C23: remove_question(id) with an id of no question returns None and leaves
\* questions, topic_ids, difficulty_range, estimated_duration_minutes and updated_at
\* unchanged; with an id present it returns the first question with that id and
\* removes that one question, the others keeping their order.
C23_RemoveQuestion ==
    [][ Called("remove_question") =>
            LET id == last'.question IN
            /\ ~Present(questions, id) =>
                  /\ ~last'.ok /\ returned' = << >>
                  /\ UNCHANGED <<questions, topic_ids, difficulty_range,
                                 estimated_duration_minutes, updated_at>>
            /\ Present(questions, id) =>
                  /\ last'.ok
                  /\ \E k \in 1..Len(questions) :
                        /\ questions[k].id = id
                        /\ \A j \in 1..(k - 1) : questions[j].id # id
                        /\ returned' = <<questions[k]>>
                        /\ Len(questions') = Len(questions) - 1
                        /\ \A j \in 1..(k - 1) : questions'[j] = questions[j]
                        /\ \A j \in k..Len(questions') : questions'[j] = questions[j + 1]
      ]_vars

\* C23 witness: of two questions with the removed id the first was returned and the
\* second is still in the quiz
C23_Witness ==
    /\ last.op = "remove_question" /\ last.ok /\ last.index = 1
    /\ Len(returned) = 1
    /\ Present(questions, returned[1].id)

\* the number of times x occurs in sequence s
Count(x, s) == Cardinality({i \in 1..Len(s) : s[i] = x})

\* sequences a and b hold the same elements, each as many times
SameMultiset(a, b) ==
    /\ Len(a) = Len(b)
    /\ \A x \in Elements(a) \cup Elements(b) : Count(x, a) = Count(x, b)

\* C24: get_questions_for_session returns a permutation of the quiz's questions, in
\* the quiz's order when randomize_questions is false; it leaves the quiz unchanged,
\* and what it can return does not depend on randomize_options.
C24_QuestionsForSession ==
    /\ [][ Called("get_questions_for_session") =>
              /\ SameMultiset(returned', questions)
              /\ ~randomize_questions => returned' = questions
              /\ UNCHANGED quiz ]_vars
    /\ [](questions_for_session(questions, randomize_questions, TRUE)
              = questions_for_session(questions, randomize_questions, FALSE))

\* C24 witness: with both flags set, three questions were returned in another order
C24_Witness ==
    /\ last.op = "get_questions_for_session"
    /\ randomize_questions /\ randomize_options
    /\ Len(returned) = 3
    /\ returned # questions

\* the score calculate_score returned
TheScore == unwrap(v_score)

\* calculate_score has returned for a strategy of variant kind
ScoredBy(kind) == v_score # None /\ strategy.kind = kind

\* f32 r is n / d, or 0.0 when d is 0
RatioOrZero(r, n, d) == IF d = 0 THEN r = Zero ELSE RatioIs(r, n, d)

\* C25: Simple scoring returns raw_score = (responses with is_correct) / (length of
\* the question list), 0 for the empty list; weighted_score equals raw_score and
\* time_bonus, difficulty_bonus and streak_bonus are 0.
C25_SimpleScore ==
    ScoredBy("Simple") =>
        /\ RatioOrZero(TheScore.raw_score, CountCorrect(scored_session.responses),
                       Len(scored_questions))
        /\ TheScore.weighted_score = TheScore.raw_score
        /\ TheScore.time_bonus = Zero
        /\ TheScore.difficulty_bonus = Zero
        /\ TheScore.streak_bonus = Zero

\* C25 witness: two questions and one correct response of two, scored 0.5
C25_Witness ==
    /\ ScoredBy("Simple")
    /\ Len(scored_questions) = 2
    /\ Len(scored_session.responses) = 2
    /\ CountCorrect(scored_session.responses) = 1
    /\ RatioIs(TheScore.raw_score, 1, 2)

\* the scored session has no response and no skipped question
NothingAnswered ==
    scored_session.responses = << >> /\ scored_session.skipped_questions = << >>

\* C26: for a session with no responses and no skipped questions every strategy
\* (the Adaptive ones with weights >= 0) returns raw_score = 0 and weighted_score = 0,
\* whatever the question list.
C26_NoResponses ==
    (v_score # None /\ NothingAnswered) =>
        TheScore.raw_score = Zero /\ TheScore.weighted_score = Zero

\* the responses of the scored session whose question is in the scored list
InList == {i \in 1..Len(scored_session.responses) :
              Present(scored_questions, scored_session.responses[i].question_id)}

\* max(0, c - max(0, time_taken - base_time) * penalty_per_second) for response r
PointsOf(r) ==
    LET c == IF r.is_correct THEN One ELSE Zero
        late == IF r.time_taken_seconds > strategy.base_time_seconds
                THEN r.time_taken_seconds - strategy.base_time_seconds ELSE 0
    IN fmax(Zero, fsub(c, fmul(F(late), strategy.penalty_per_second)))

\* the sum of PointsOf over the responses in the list
SumOfPoints ==
    fsum([i \in 1..Len(scored_session.responses) |->
             IF i \in InList THEN PointsOf(scored_session.responses[i]) ELSE Zero])

\* weighted_score and time_bonus are the ones of the TimeWeighted formula
TimeWeightedFormula ==
    /\ TheScore.weighted_score =
           IF scored_questions = << >> THEN Zero
           ELSE fdiv(SumOfPoints, F(Len(scored_questions)))
    /\ TheScore.time_bonus = fsub(TheScore.weighted_score, TheScore.raw_score)

\* the responses in the list are correct and none took more than the base time:
\* each earned exactly 1
CorrectInTimeEarnOne ==
    (\A i \in InList :
        /\ scored_session.responses[i].is_correct
        /\ scored_session.responses[i].time_taken_seconds <= strategy.base_time_seconds)
    => RatioOrZero(TheScore.weighted_score, Cardinality(InList), Len(scored_questions))

\* the responses in the list are all incorrect
AllIncorrect == \A i \in InList : ~scored_session.responses[i].is_correct

BucketMultiplier(q) ==
    IF q.difficulty < EasyBelow THEN strategy.easy_multiplier
    ELSE IF q.difficulty < MediumBelow THEN strategy.medium_multiplier
    ELSE strategy.hard_multiplier

\* the question of the scored list with id question_id
QuestionOf(question_id) ==
    scored_questions[CHOOSE i \in 1..Len(scored_questions) :
                        scored_questions[i].id = question_id]

\* the skipped indices of session s that are within the scored list
SkippedInList(s) ==
    {i \in 1..Len(s.skipped_questions) : s.skipped_questions[i] < Len(scored_questions)}

\* max-possible: the multipliers of the answered questions in the list and of the
\* skipped indices within it
MaxPossible ==
    fadd(fsum([i \in 1..Len(scored_session.responses) |->
                 IF i \in InList
                 THEN BucketMultiplier(QuestionOf(scored_session.responses[i].question_id))
                 ELSE Zero]),
         fsum([i \in 1..Len(scored_session.skipped_questions) |->
                 IF i \in SkippedInList(scored_session)
                 THEN BucketMultiplier(
                          scored_questions[scored_session.skipped_questions[i] + 1])
                 ELSE Zero]))

\* earned: the multipliers of the correctly answered questions in the list
Earned ==
    fsum([i \in 1..Len(scored_session.responses) |->
            IF i \in InList /\ scored_session.responses[i].is_correct
            THEN BucketMultiplier(QuestionOf(scored_session.responses[i].question_id))
            ELSE Zero])

PositiveMultipliers ==
    /\ flt(Zero, strategy.easy_multiplier)
    /\ flt(Zero, strategy.medium_multiplier)
    /\ flt(Zero, strategy.hard_multiplier)

\* the scored session before its last skip
BeforeLastSkip ==
    [scored_session EXCEPT
        !.skipped_questions = SubSeq(@, 1, Len(@) - 1)]

\* the weighted score of the scored session before its last skip
WeightedBeforeLastSkip ==
    calculate_score(strategy, BeforeLastSkip, scored_questions).weighted_score

\* C28 as stated: DifficultyWeighted returns weighted_score = earned / max-possible,
\* 0 when max-possible is 0, over the buckets easy (< 0.33), medium (< 0.67) and
\* hard; with multipliers above 0 it is 1 when every answered question is correct
\* and nothing is skipped, and a skipped question lowers it.
C28_DifficultyWeighted ==
    ScoredBy("DifficultyWeighted") =>
        /\ TheScore.weighted_score =
               IF MaxPossible = Zero THEN Zero ELSE fdiv(Earned, MaxPossible)
        /\ (/\ PositiveMultipliers
            /\ \A i \in 1..Len(scored_session.responses) :
                  scored_session.responses[i].is_correct
            /\ scored_session.skipped_questions = << >>)
               => TheScore.weighted_score = One
        /\ (PositiveMultipliers /\ scored_session.skipped_questions # << >>)
               => flt(TheScore.weighted_score, WeightedBeforeLastSkip)

\* C28, amended: weighted_score = earned / max-possible when max-possible is above
\* 0 and 0 otherwise; with multipliers above 0 it is 1 when some answered question
\* is in the list, every such question is answered correctly and no skipped index
\* is within the list; a skipped index within the list lowers a score above 0, and
\* any other skip leaves the score as it was.
C28_DifficultyWeightedInList ==
    ScoredBy("DifficultyWeighted") =>
        /\ TheScore.weighted_score =
               IF flt(Zero, MaxPossible) THEN fdiv(Earned, MaxPossible) ELSE Zero
        /\ (/\ PositiveMultipliers
            /\ InList # {}
            /\ \A i \in InList : scored_session.responses[i].is_correct
            /\ SkippedInList(scored_session) = {})
               => TheScore.weighted_score = One
        /\ (PositiveMultipliers /\ scored_session.skipped_questions # << >>)
               => IF /\ Len(scored_session.skipped_questions)
                           \in SkippedInList(scored_session)
                     /\ flt(Zero, WeightedBeforeLastSkip)
                  THEN flt(TheScore.weighted_score, WeightedBeforeLastSkip)
                  ELSE TheScore.weighted_score = WeightedBeforeLastSkip

\* C28 witness: with the multipliers 1, 1.5 and 2, the hard question answered
\* correctly and the easy first question skipped, the score is 2 / 3, below the 1
\* it was before the skip
C28_Witness ==
    /\ ScoredBy("DifficultyWeighted")
    /\ PositiveMultipliers
    /\ Len(scored_questions) = 2
    /\ scored_questions[1].difficulty < EasyBelow
    /\ scored_session.skipped_questions = <<0>>
    /\ Cardinality(InList) = 1
    /\ \A i \in InList : scored_session.responses[i].is_correct
    /\ WeightedBeforeLastSkip = One
    /\ RatioIs(TheScore.weighted_score, 2, 3)

\* the four weights of the Adaptive strategy are 0
ZeroWeights ==
    /\ strategy.time_weight = Zero
    /\ strategy.difficulty_weight = Zero
    /\ strategy.streak_weight = Zero
    /\ strategy.consistency_weight = Zero

\* C29: Adaptive with the four weights 0 returns weighted_score equal to raw_score,
\* the raw score of Simple, and the bonus fields 0, for every session and list.
C29_AdaptiveZeroWeights ==
    (ScoredBy("Adaptive") /\ ZeroWeights) =>
        /\ TheScore.weighted_score = TheScore.raw_score
        /\ RatioOrZero(TheScore.raw_score, CountCorrect(scored_session.responses),
                       Len(scored_questions))
        /\ TheScore.time_bonus = Zero
        /\ TheScore.difficulty_bonus = Zero
        /\ TheScore.streak_bonus = Zero

\* C29 witness: with the weights 0, one response of two correct and components
\* above 0, both scores are 0.5
C29_Witness ==
    /\ ScoredBy("Adaptive") /\ ZeroWeights
    /\ Len(scored_questions) = 2
    /\ Len(scored_session.responses) = 2
    /\ flt(Zero, TheScore.components.speed)
    /\ flt(Zero, TheScore.components.difficulty)
    /\ flt(Zero, TheScore.components.consistency)
    /\ RatioIs(TheScore.weighted_score, 1, 2)
    /\ RatioIs(TheScore.raw_score, 1, 2)

\* a <= b for f32 a and b
fle(a, b) == ~flt(b, a)

\* none of the four weights of the Adaptive strategy is below 0
WeightsNotNegative ==
    /\ fle(Zero, strategy.time_weight)
    /\ fle(Zero, strategy.difficulty_weight)
    /\ fle(Zero, strategy.streak_weight)
    /\ fle(Zero, strategy.consistency_weight)

\* C30: for Adaptive with weights >= 0 and a session whose responses all belong to
\* the question list, raw_score <= weighted_score <= 1.
C30_AdaptiveBetween ==
    (/\ ScoredBy("Adaptive")
     /\ WeightsNotNegative
     /\ InList = 1..Len(scored_session.responses)) =>
        /\ fle(TheScore.raw_score, TheScore.weighted_score)
        /\ fle(TheScore.weighted_score, One)

\* the longest run of correct responses in rs, counted as the responses come:
\* current is the running count, reset by an incorrect response, best its maximum
RECURSIVE LongestRun(_, _, _)
LongestRun(rs, current, best) ==
    IF rs = << >> THEN best
    ELSE IF Head(rs).is_correct
    THEN LongestRun(Tail(rs), current + 1,
                    IF current + 1 > best THEN current + 1 ELSE best)
    ELSE LongestRun(Tail(rs), 0, best)

\* (longest run of correct responses) / (number of responses), 0 without responses
StreakScore(rs) ==
    IF rs = << >> THEN Zero ELSE Frac(LongestRun(rs, 0, 0), Len(rs))

\* C31: the Adaptive streak score is (longest run of consecutive correct responses,
\* in list order, the count reset at every incorrect response) / (number of
\* responses), 0 without responses; streak_bonus = streak score * streak_weight.
C31_StreakScore ==
    ScoredBy("Adaptive") =>
        TheScore.streak_bonus =
            fmul(StreakScore(scored_session.responses), strategy.streak_weight)

\* C31 witness: three of four responses correct, the second wrong: streak_weight 1
\* gives a bonus of 2 / 4
C31_Witness ==
    /\ ScoredBy("Adaptive")
    /\ strategy.streak_weight = One
    /\ Len(scored_session.responses) = 4
    /\ CountCorrect(scored_session.responses) = 3
    /\ ~scored_session.responses[2].is_correct
    /\ RatioIs(TheScore.streak_bonus, 1, 2)

\* the error validate_answer returns for answer a to question q, "" when a passes:
\* a variant that does not match, an index that is no option, a wrong count
ValidationError(q, a) ==
    LET qt == q.question_type IN
    IF Open(q) \/ Mismatched(q, a) THEN "Answer type does not match question type"
    ELSE IF \/ /\ Both(q, a, "MultipleChoice")
               /\ a.index >= Len(qt.options)
            \/ /\ Both(q, a, "MultiSelect")
               /\ \E i \in 1..Len(a.indices) : a.indices[i] >= Len(qt.options)
    THEN "Invalid option index"
    ELSE IF Both(q, a, "FillInTheBlank") /\ Len(a.strings) # Len(qt.correct_answers)
    THEN "Wrong number of answers"
    ELSE ""

\* C32: submit_answer called in state InProgress with an answer that fails
\* validation returns the validation error and leaves the session as it was: the
\* responses (none added, an existing one with its answer, correctness, time and
\* attempts) and last_activity included.
C32_InvalidAnswerChangesNothing ==
    [][ (/\ state = "InProgress"
         /\ ValidationError(v_question, v_answer) # ""
         /\ submit_answer(v_question, v_answer, 1)) =>
            /\ ~last'.ok
            /\ last'.err = ValidationError(v_question, v_answer)
            /\ ~panicked'
            /\ UNCHANGED session ]_vars

\* C32 witness: a question answered once has rejected a second answer for its
\* number of strings, and its response is the one of the first answer
C32_Witness ==
    /\ state = "InProgress"
    /\ last.op = "submit_answer" /\ ~last.ok
    /\ last.err = "Wrong number of answers"
    /\ Len(responses) = 1
    /\ responses[1].question_id = v_question.id
    /\ responses[1].attempts = 1
    /\ Len(responses[1].answer.strings) # Len(v_answer.strings)

\* C33: no operation panics, whatever the values of the u32 time fields: the
\* cumulative-time addition and the attempts increment of submit_answer, the
\* total-time sum of generate_summary and the sum of estimated_time_seconds of the
\* quiz all complete and return.
C33_NoPanic == ~panicked /\ last.err # "panic"

\* the duration generate_summary reports for the session as it is, read at t
DurationAt(t) == generate_summary(self, t).duration

\* C34: the summary's duration is end_time - start_time - pause_duration when both
\* times are set and zero when the session was never started; it is never negative:
\* in every reachable state pause_duration is at most the time elapsed since
\* start_time.
C34_Duration ==
    /\ [](\A t \in now..MaxClock :
            /\ (is_some(start_time) /\ is_some(end_time)) =>
                   DurationAt(t) = unwrap(end_time) - unwrap(start_time) - pause_duration
            /\ start_time = None => DurationAt(t) = 0
            /\ DurationAt(t) >= 0)
    /\ [](IF is_some(start_time)
          THEN pause_duration <= now - unwrap(start_time)
          ELSE pause_duration = 0)
    /\ [][ (Called("complete") /\ last'.ok) =>
              /\ last'.summary.duration =
                     unwrap(end_time') - unwrap(start_time') - pause_duration'
              /\ last'.summary.duration >= 0 ]_vars

\* C34 witness: a session started at 0, paused for 1 and completed at 2 has the
\* duration 1
C34_Witness ==
    /\ last.op = "complete" /\ last.ok
    /\ start_time = Some(0) /\ end_time = Some(2)
    /\ pause_duration = 1
    /\ last.summary.duration = 1

\* C35: end_time is set exactly when the state is Completed or Abandoned, and no
\* call takes a session from Completed or Abandoned to any other state.
C35_EndTimeIffTerminal ==
    /\ [](is_some(end_time) <=> state \in Terminal)
    /\ [][ (state \in Terminal) => state' \in Terminal ]_vars

\* C35 witness: a completed session has refused to start again
C35_Witness ==
    /\ last.op = "start" /\ ~last.ok
    /\ state = "Completed"
    /\ is_some(end_time)
    /\ succeeded.start = 1

\* C36: once the session is Completed or Abandoned, no call changes the list of
\* responses or the current question index.
C36_TerminalResponsesFrozen ==
    [][ (state \in Terminal) =>
            /\ responses' = responses
            /\ current_question_index' = current_question_index ]_vars

\* C36 witness: an ended session holding a response has accepted skip_question
C36_Witness ==
    /\ state \in Terminal
    /\ last.op = "skip_question" /\ last.ok
    /\ Len(responses) > 0
    /\ Len(skipped_questions) > 0

\* C37: pause_duration is the total length of the closed pause intervals: it starts
\* at zero, a successful resume() adds the time from the reading its pause() took
\* to a reading r the resume() takes, and no other call changes it.
C37_PausedTime ==
    /\ pause_duration = 0
    /\ [][ IF Called("resume") /\ last'.ok
           THEN \E r \in now..now' :
                    pause_duration' = pause_duration + (r - unwrap(paused_at))
           ELSE pause_duration' = pause_duration ]_vars

\* C39: add_question(q) for a question whose id is not in the quiz, followed by
\* remove_question(q.id), returns the question and leaves the question sequence,
\* difficulty_range and estimated_duration_minutes as they were before the add.
C39_AddThenRemove ==
    [][ (/\ last.op = "add_question" /\ last.ok
         /\ ~Present(last.before[1], last.question)
         /\ Called("remove_question")
         /\ last'.question = last.question) =>
            /\ last'.ok
            /\ <<questions', difficulty_range', estimated_duration_minutes'>>
                   = last.before ]_vars

\* C38: the raw_score of every Score returned by calculate_score lies between 0
\* and 1, whatever the session and the question list.
C38_RawScoreInUnitInterval ==
    v_score # None =>
        /\ fle(Zero, TheScore.raw_score)
        /\ fle(TheScore.raw_score, One)

\* the scored session answers each question at most once, answers questions of
\* the scored list only and skips indices within the list, each at most once
SessionOfList ==
    /\ \A i, j \in 1..Len(scored_questions) :
          scored_questions[i].id = scored_questions[j].id => i = j
    /\ InList = 1..Len(scored_session.responses)
    /\ \A i, j \in 1..Len(scored_session.responses) :
          scored_session.responses[i].question_id
              = scored_session.responses[j].question_id => i = j
    /\ SkippedInList(scored_session) = 1..Len(scored_session.skipped_questions)
    /\ NoDuplicates(scored_session.skipped_questions)

\* the positions in the scored list of the questions answered or skipped
AnsweredOrSkipped ==
    {k \in 1..Len(scored_questions) :
        \/ \E i \in 1..Len(scored_session.responses) :
              scored_session.responses[i].question_id = scored_questions[k].id
        \/ \E i \in 1..Len(scored_session.skipped_questions) :
              scored_session.skipped_questions[i] + 1 = k}

\* the multipliers of the questions answered or skipped, each taken once
MaxPossibleOnce ==
    fsum([k \in 1..Len(scored_questions) |->
            IF k \in AnsweredOrSkipped THEN BucketMultiplier(scored_questions[k])
            ELSE Zero])

\* the summary of the scored session
ScoredSummary ==
    generate_summary(Self("Completed", 0, scored_session.responses,
                          scored_session.skipped_questions, None, None, 0, 0), 0)

\* C40: a question is counted once in the totals, also when it is both skipped
\* and answered: the summary's total_questions does not exceed the number of distinct
\* questions answered or skipped, and DifficultyWeighted divides the earned multipliers by
\* the multipliers of those questions, each taken once.
C40_CountedOnce ==
    (v_score # None /\ SessionOfList) =>
        /\ ScoredSummary.total_questions <= Cardinality(AnsweredOrSkipped)
        /\ (ScoredBy("DifficultyWeighted") /\ PositiveMultipliers) =>
              TheScore.weighted_score =
                  IF AnsweredOrSkipped = {} THEN Zero
                  ELSE fdiv(Earned, MaxPossibleOnce)

====
